---- MODULE Spec2Model ----
(***************************************************************************)
(* The resumable scan-and-merge pipeline of library_analyzer:              *)
(* count_calls_and_parameters dispatches the not yet excluded Python files *)
(* to a process pool, every worker writes one JSON artifact per relevant   *)
(* file and appends the file to the exclude list under a lock, and         *)
(* _merge_results folds all artifacts into the canonical store.            *)
(***************************************************************************)
EXTENDS Integers, Sequences, FiniteSets, TLC

(***************************************************************************)
(* Bounds of the model.                                                    *)
(***************************************************************************)
\* files under the source root when the pool has one process
MaxFiles == 5
\* files under the source root when the pool has MaxProcesses processes
SmallBatch == 3
\* processes of the pool (the source uses 12)
MaxProcesses == 2
\* how often the process tree is killed and the command rerun
MaxKills == 1
\* files whose scan does not end normally with an artifact
MaxFaulty == 1
\* cells of an artifact that one flush of the file buffer writes
BlockCells == 2

\* multiprocessing.Pool splits the batch into len(pool) * 4 chunks
ChunkFactor == 4

(***************************************************************************)
(* Strings: the pieces of Python's str the program uses.                   *)
(***************************************************************************)
\* str.replace: left to right, non-overlapping
RECURSIVE replace(_, _, _)
replace(s, old, new) ==
    IF Len(s) < Len(old) THEN s
    ELSE IF SubSeq(s, 1, Len(old)) = old
         THEN new \o replace(SubSeq(s, Len(old) + 1, Len(s)), old, new)
         ELSE SubSeq(s, 1, 1) \o replace(SubSeq(s, 2, Len(s)), old, new)

\* str.startswith
startswith(s, prefix) ==
    /\ Len(prefix) <= Len(s)
    /\ SubSeq(s, 1, Len(prefix)) = prefix

\* the `in` operator on two strings
contains(s, sub) ==
    \E i \in 1..(Len(s) - Len(sub) + 1) : SubSeq(s, i, i + Len(sub) - 1) = sub

Whitespace == {" ", "\t", "\n", "\r"}

\* str.strip
RECURSIVE strip(_)
strip(s) ==
    IF Len(s) = 0 THEN s
    ELSE IF SubSeq(s, 1, 1) \in Whitespace THEN strip(SubSeq(s, 2, Len(s)))
    ELSE IF SubSeq(s, Len(s), Len(s)) \in Whitespace THEN strip(SubSeq(s, 1, Len(s) - 1))
    ELSE s

\* str.endswith
endswith(s, suffix) ==
    /\ Len(suffix) <= Len(s)
    /\ SubSeq(s, Len(s) - Len(suffix) + 1, Len(s)) = suffix

(***************************************************************************)
(* The source roots the command is started with, and the files under a     *)
(* root, relative to it, in the order os.walk yields them.                 *)
(***************************************************************************)
Roots == {"s", " s"}

RelPaths ==
    << "/a/b.py", "/a$$$b.py", "/c.py", "/d.py", "/e.py", "/g.py", "/h.py" >>

OtherFile == "/README.md"

PathSet == {root \o RelPaths[i] : root \in Roots, i \in DOMAIN RelPaths}

Relative(python_file) ==
    CHOOSE rel \in {RelPaths[i] : i \in DOMAIN RelPaths} :
        \E root \in Roots : python_file = root \o rel

\* What reading and scanning a file does: "ok" ends with an artifact,
\* "irrelevant" fails _is_relevant_python_file, "encoding", "syntax" and
\* "recursion" raise the three errors the worker catches, "other" raises
\* anything else (PermissionError, AssertionError of the walker, ...).
Kinds == {"ok", "irrelevant", "encoding", "syntax", "recursion", "other"}

Recoverable == {"encoding", "syntax", "recursion"}

(***************************************************************************)
(* The public API of the relevant package, as get_public_api returns it:   *)
(* callables (name -> parameter -> default value) and classes.  A default  *)
(* value is <<>> for None and <<text>> otherwise.                          *)
(***************************************************************************)
PublicFunctions ==
    << [qname |-> "m.f",
        parameters |-> << [name |-> "a", default |-> << >>],
                          [name |-> "b", default |-> <<"1">>] >>],
       [qname |-> "m.C.__init__",
        parameters |-> << [name |-> "x", default |-> <<"0">>] >>],
       [qname |-> "m.Cx.__init__",
        parameters |-> << >>] >>

PublicClasses == {"m.C", "m.Cx"}

PublicNames == {PublicFunctions[i].qname : i \in DOMAIN PublicFunctions}

FunctionOf(q) == CHOOSE fn \in {PublicFunctions[i] : i \in DOMAIN PublicFunctions} : fn.qname = q

ParameterNames(q) == {FunctionOf(q).parameters[i].name : i \in DOMAIN FunctionOf(q).parameters}

DefaultOf(q, p) ==
    LET ps == FunctionOf(q).parameters
    IN  (CHOOSE par \in {ps[i] : i \in DOMAIN ps} : par.name = p).default

(***************************************************************************)
(* The calls of each file: what astroid infers as the declaration called   *)
(* (qualified name, parameters, number of implicit parameters; << >> when  *)
(* there is none or it is not of the package), the arguments of the call   *)
(* site, line and column.  The args of a declaration are << >> for None    *)
(* and <<names>> otherwise.                                                *)
(***************************************************************************)
NoCalls == << >>

\* an argument node: as_string() gives back its source text
Const(text) == [as_string |-> text]

\* astroid.Arguments of a declaration with an explicit parameter list
Arguments(names) == [posonlyargs |-> << >>, args |-> << names >>]

DeclaredF == << "m.f", Arguments(<< "a", "b" >>), 0 >>

DeclaredG == << "m._g", Arguments(<< "y" >>), 0 >>

DeclaredC == << "m.C.__init__", Arguments(<< "self", "x" >>), 1 >>

DeclaredCx == << "m.Cx.__init__", Arguments(<< "self" >>), 1 >>

\* a call node with arguments astroid can unpack
Call(called, positional_arguments, keyword_arguments, lineno, col_offset) ==
    [called |-> called,
     positional_arguments |-> positional_arguments,
     keyword_arguments |-> keyword_arguments,
     invalid_arguments |-> FALSE,
     invalid_keywords |-> FALSE,
     lineno |-> lineno,
     col_offset |-> col_offset]

FileCalls(python_file) ==
    CASE Relative(python_file) = "/a/b.py" ->
           << Call(DeclaredF, << Const("1") >>, << >>, 1, 0) >>
      [] Relative(python_file) = "/a$$$b.py" ->
           << Call(DeclaredF, << Const("2") >>, [b |-> Const("3")], 2, 4),
              Call(DeclaredG, << Const("1") >>, << >>, 3, 0) >>
      [] Relative(python_file) = "/c.py" ->
           << Call(DeclaredC, << Const("0") >>, << >>, 1, 0),
              Call(DeclaredCx, << >>, << >>, 2, 0) >>
      [] Relative(python_file) = "/d.py" -> NoCalls
      [] Relative(python_file) = "/e.py" ->
           << Call(DeclaredF, << >>, [a |-> Const("1")], 7, 0) >>
      [] Relative(python_file) = "/g.py" ->
           << Call(DeclaredCx, << >>, << >>, 5, 2) >>
      [] OTHER ->
           << Call(DeclaredF, << >>, [b |-> Const("1")], 1, 0) >>

(***************************************************************************)
(* _CallAndParameterCounter: the partial store of one file.                *)
(***************************************************************************)
EmptyMap == << >>

Lookup(m, k, default) == IF k \in DOMAIN m THEN m[k] ELSE default

Put(m, k, v) == [x \in DOMAIN m \cup {k} |-> IF x = k THEN v ELSE m[x]]

_CallAndParameterCounter(python_file) ==
    [python_file |-> python_file, calls |-> EmptyMap, parameters |-> EmptyMap, values |-> EmptyMap]

_stringify_value(value) == value.as_string

\* lines 566-586: the declaration astroid infers for the call
_analyze_declaration_called_by(node) == node.called

\* CallSite.from_call
CallSite_from_call(node) ==
    [positional_arguments |-> node.positional_arguments,
     keyword_arguments |-> node.keyword_arguments,
     invalid_arguments |-> node.invalid_arguments,
     invalid_keywords |-> node.invalid_keywords]

\* lines 618-637; << >> for None and <<dict>> otherwise
_bound_parameters(parameters, arguments, n_implicit_parameters) ==
    IF parameters.args = << >> \/ arguments.invalid_arguments \/ arguments.invalid_keywords
    THEN << >>
    ELSE LET names == parameters.posonlyargs \o parameters.args[1]
             positional_parameter_names ==
                 IF n_implicit_parameters >= Len(names) THEN << >>
                 ELSE SubSeq(names, n_implicit_parameters + 1, Len(names))
             taken == {index \in DOMAIN arguments.positional_arguments :
                          index <= Len(positional_parameter_names)}
             by_position == {positional_parameter_names[index] : index \in taken}
         IN  << [name \in DOMAIN arguments.keyword_arguments \cup by_position |->
                    IF name \in by_position
                    THEN arguments.positional_arguments[
                             CHOOSE index \in taken : positional_parameter_names[index] = name]
                    ELSE arguments.keyword_arguments[name]] >>

\* lines 535-563 without lines 538-540
record_call_NoCall(self, qualified_name, bound_parameters, node) ==
    LET occurrence == << self.python_file, node.lineno, node.col_offset >>
        old_parameters == Lookup(self.parameters, qualified_name, EmptyMap)
        old_values == Lookup(self.values, qualified_name, EmptyMap)
    IN  [self EXCEPT
            !.parameters = Put(@, qualified_name,
                [p \in DOMAIN old_parameters \cup DOMAIN bound_parameters |->
                    IF p \in DOMAIN bound_parameters
                    THEN Append(Lookup(old_parameters, p, << >>), occurrence)
                    ELSE old_parameters[p]]),
            !.values = Put(@, qualified_name,
                [p \in DOMAIN old_values \cup DOMAIN bound_parameters |->
                    IF p \in DOMAIN bound_parameters
                    THEN LET v == _stringify_value(bound_parameters[p])
                             of_p == Lookup(old_values, p, EmptyMap)
                         IN  Put(of_p, v, Append(Lookup(of_p, v, << >>), occurrence))
                    ELSE old_values[p]])]

\* lines 535-563: the call is recorded
record_call(self, qualified_name, bound_parameters, node) ==
    LET occurrence == << self.python_file, node.lineno, node.col_offset >>
        old_parameters == Lookup(self.parameters, qualified_name, EmptyMap)
        old_values == Lookup(self.values, qualified_name, EmptyMap)
        new_parameters ==
            [p \in DOMAIN old_parameters \cup DOMAIN bound_parameters |->
                IF p \in DOMAIN bound_parameters
                THEN Append(Lookup(old_parameters, p, << >>), occurrence)
                ELSE old_parameters[p]]
        new_values ==
            [p \in DOMAIN old_values \cup DOMAIN bound_parameters |->
                IF p \in DOMAIN bound_parameters
                THEN LET v == _stringify_value(bound_parameters[p])
                         of_p == Lookup(old_values, p, EmptyMap)
                     IN  Put(of_p, v, Append(Lookup(of_p, v, << >>), occurrence))
                ELSE old_values[p]]
    IN  [self EXCEPT
            !.calls = Put(@, qualified_name, Append(Lookup(@, qualified_name, << >>), occurrence)),
            !.parameters = Put(@, qualified_name, new_parameters),
            !.values = Put(@, qualified_name, new_values)]

\* lines 520-563
visit_call(self, node) ==
    LET called == _analyze_declaration_called_by(node)
    IN  IF called = << >> THEN self
        ELSE LET bound_parameters ==
                     _bound_parameters(called[2], CallSite_from_call(node), called[3])
             IN  IF bound_parameters = << >> THEN self
                 ELSE record_call(self, called[1], bound_parameters[1], node)

\* ASTWalker(...).walk: visit_call on every call of the file, in order
RECURSIVE walk(_, _)
walk(self, nodes) ==
    IF nodes = << >> THEN self
    ELSE walk(visit_call(self, Head(nodes)), Tail(nodes))

\* what json.dump writes for a file
ArtifactContent(python_file) ==
    LET counter == walk(_CallAndParameterCounter(python_file), FileCalls(python_file))
    IN  [calls |-> counter.calls, parameters |-> counter.parameters, values |-> counter.values]

\* the name of the artifact of a file inside out_dir
ArtifactName(python_file) ==
    replace(replace(replace(python_file, "/", "$$$"), "\\", "$$$"), ".py", ".json")

\* cells the artifact of a file occupies on disk
Size(python_file) == 1 + Len(FileCalls(python_file))

\* the artifact of every file of the tree: its name, its size and its content
NameOf == [python_file \in PathSet |-> ArtifactName(python_file)]

SizeOf == [python_file \in PathSet |-> Size(python_file)]

ContentOf == [python_file \in PathSet |-> ArtifactContent(python_file)]

(***************************************************************************)
(* _merge_results: seed the result with the public API, fold every         *)
(* artifact into it, then derive the class usages from the calls.          *)
(***************************************************************************)
None == << >>

SeedCalls == [q \in PublicNames |-> << >>]

SeedParameters == [q \in PublicNames |-> [p \in ParameterNames(q) |-> << >>]]

SeedValues ==
    [q \in PublicNames |->
        [p \in ParameterNames(q) |-> [defaultValue |-> DefaultOf(q, p), values |-> EmptyMap]]]

SeedClasses == [c \in PublicClasses |-> << >>]

\* lines 154-161: calls of a callable outside the public API are skipped
MergeCalls(result_calls, call_store) ==
    [q \in DOMAIN result_calls |->
        IF q \in DOMAIN call_store THEN result_calls[q] \o call_store[q] ELSE result_calls[q]]

\* lines 163-173
MergeParameters(result_parameters, parameter_store) ==
    [q \in DOMAIN result_parameters \cup DOMAIN parameter_store |->
        LET old == Lookup(result_parameters, q, EmptyMap)
            new == Lookup(parameter_store, q, EmptyMap)
        IN  [p \in DOMAIN old \cup DOMAIN new |->
                Lookup(old, p, << >>) \o Lookup(new, p, << >>)]]

\* lines 175-192
MergeValues(result_values, value_store) ==
    [q \in DOMAIN result_values \cup DOMAIN value_store |->
        LET old == Lookup(result_values, q, EmptyMap)
            new == Lookup(value_store, q, EmptyMap)
        IN  [p \in DOMAIN old \cup DOMAIN new |->
                LET old_p == Lookup(old, p, [defaultValue |-> None, values |-> EmptyMap])
                    new_p == Lookup(new, p, EmptyMap)
                IN  [old_p EXCEPT !.values =
                        [v \in DOMAIN @ \cup DOMAIN new_p |->
                            Lookup(@, v, << >>) \o Lookup(new_p, v, << >>)]]]]

\* lines 194-198: result_calls is iterated in insertion order, the order of
\* the public functions
RECURSIVE MergeClass(_, _, _)
MergeClass(class_name, result_calls, i) ==
    IF i > Len(PublicFunctions) THEN << >>
    ELSE LET callable_name == PublicFunctions[i].qname
         IN  (IF startswith(callable_name, class_name) THEN result_calls[callable_name] ELSE << >>)
             \o MergeClass(class_name, result_calls, i + 1)

MergeClasses(result_classes, result_calls) ==
    [c \in DOMAIN result_classes |-> result_classes[c] \o MergeClass(c, result_calls, 1)]

\* the loop over the artifacts, in the order list_files yields them
RECURSIVE MergeArtifacts(_, _)
MergeArtifacts(result, contents) ==
    IF contents = << >> THEN result
    ELSE LET content == Head(contents)
         IN  MergeArtifacts(
                 [result EXCEPT
                     !.calls = MergeCalls(@, content.calls),
                     !.parameters = MergeParameters(@, content.parameters),
                     !.values = MergeValues(@, content.values)],
                 Tail(contents))

_merge_results(contents) ==
    LET seeded == [classes |-> SeedClasses, calls |-> SeedCalls,
                   parameters |-> SeedParameters, values |-> SeedValues]
        merged == MergeArtifacts(seeded, contents)
    IN  [merged EXCEPT !.classes = MergeClasses(@, merged.calls)]

\* _removed_classes: the public classes without any usage
_removed_classes(class_store) ==
    {c \in DOMAIN class_store : Len(class_store[c]) = 0}

(***************************************************************************)
(* State.                                                                  *)
(***************************************************************************)
VARIABLES
    src_dir,        \* the source root
    tree,           \* the files under the source root, relative to it
    processes,      \* processes of the pool
    fileKind,       \* file -> what reading and scanning it does
    exclude_file_exists, \* the exclude file was there when the command was first run
    excludeFile,    \* the lines of the exclude file
    outDir,         \* name -> cells of the files that exist in out_dir
    orch,           \* where count_calls_and_parameters is
    excluded,       \* excluded_python_files
    python_files,   \* the batch of this run
    taskQueue,      \* chunks of the batch no worker has taken yet
    numberLeft,     \* chunks whose result the pool still waits for
    success,        \* FALSE once a chunk ended with an exception
    pool,           \* process -> [pc, chunk, off]
    lock,           \* holder of _lock, 0 when free
    result,         \* what _merge_results returned
    kills,          \* kills of the process tree so far
    handed,         \* file -> calls of _do_count_calls_and_parameters in this run
    startLen,       \* lines of the exclude file when this run read it
    stage,          \* where a merge or an advisor run on given inputs is
    contents,       \* the artifacts a merge on given inputs reads, in order
    canonical,      \* what that merge returned
    api,            \* the API the advisor loaded
    usages,         \* the usage store of the advisor
    min_usages,     \* the threshold of the advisor
    preprocessed,   \* the usage store when preprocessing had ended
    distribution,   \* the three usage distributions the advisor wrote
    rarely_used,    \* the three candidate lists the advisor wrote
    nodes,          \* the call nodes a walk of one file has not visited yet
    counter         \* the _CallAndParameterCounter of that walk

inputVars == << src_dir, tree, processes, fileKind, exclude_file_exists >>
diskVars == << excludeFile, outDir >>
runVars == << excluded, python_files, handed, startLen >>
poolVars == << taskQueue, numberLeft, success, pool, lock >>
vars == << src_dir, tree, processes, fileKind, exclude_file_exists, excludeFile, outDir, orch, excluded,
           python_files, taskQueue, numberLeft, success, pool, lock, result, kills, handed,
           startLen, stage, contents, canonical, api, usages, min_usages, preprocessed,
           distribution, rarely_used, nodes, counter >>

\* the walk of the calls of one file, on its own
walkVars == << nodes, counter >>

\* the state of a merge or an advisor run that is started on given inputs,
\* outside the scan
offlineVars == << stage, contents, canonical, api, usages, min_usages, preprocessed,
                  distribution, rarely_used, walkVars >>

Range(seq) == {seq[i] : i \in DOMAIN seq}

\* list_python_files: the files under the root with the extension, each
\* joined to the root
list_files(root_dir, extension) ==
    LET found == SelectSeq(tree, LAMBDA filename : endswith(filename, extension))
    IN  [i \in DOMAIN found |-> root_dir \o found[i]]

\* the Python files under the source root
files == list_files(src_dir, ".py")

Workers == 1..processes

Idle == [pc |-> "idle", chunk |-> << >>, off |-> 0]

NoResult == [classes |-> EmptyMap, calls |-> EmptyMap, parameters |-> EmptyMap, values |-> EmptyMap]

MergedOccurrences == "$$$$$merged_occurrences$$$$$.json"

MergedClassAnalysis == "$$$$$merged_class_analysis$$$$$.json"

\* the two shapes of a run: a sequential pool over a batch that is split
\* into chunks of several files, and a parallel pool over a small batch
Configs == { << 1, MaxFiles >>, << MaxProcesses, SmallBatch >> }

\* no merge and no advisor run on given inputs
Unwalked == nodes = << >> /\ counter = None

Offline ==
    /\ stage = "none"
    /\ contents = << >>
    /\ canonical = NoResult
    /\ api = None
    /\ usages = None
    /\ min_usages = 0
    /\ preprocessed = None
    /\ distribution = None
    /\ rarely_used = None
    /\ Unwalked

Init ==
    /\ Offline
    /\ src_dir \in Roots
    /\ \E cfg \in Configs :
          /\ processes = cfg[1]
          /\ tree = SubSeq(RelPaths, 1, cfg[2]) \o << OtherFile >>
    /\ fileKind \in {k \in [{src_dir \o RelPaths[i] : i \in 1..(Len(tree) - 1)} -> Kinds] :
                        Cardinality({f \in DOMAIN k : k[f] # "ok"}) <= MaxFaulty}
    /\ exclude_file_exists \in BOOLEAN
    /\ excludeFile = << >>
    /\ outDir = EmptyMap
    /\ orch = "start"
    /\ excluded = {}
    /\ python_files = << >>
    /\ taskQueue = << >>
    /\ numberLeft = 0
    /\ success = TRUE
    /\ pool = [w \in 1..MaxProcesses |-> Idle]
    /\ lock = 0
    /\ result = NoResult
    /\ kills = 0
    /\ handed = [f \in PathSet |-> 0]
    /\ startLen = 0

(***************************************************************************)
(* count_calls_and_parameters up to the dispatch.                          *)
(***************************************************************************)
_read_lines(lines) == [i \in DOMAIN lines |-> strip(lines[i])]

initialize_and_read_exclude_file(lines) == _read_lines(lines)

\* Pool._map_async: the chunk size and the chunks of the batch
Chunksize(n, pool_size) ==
    IF n = 0 THEN 0
    ELSE (n \div (pool_size * ChunkFactor))
         + (IF n % (pool_size * ChunkFactor) # 0 THEN 1 ELSE 0)

RECURSIVE Chunks(_, _)
Chunks(batch, size) ==
    IF batch = << >> THEN << >>
    ELSE IF Len(batch) <= size THEN << batch >>
    ELSE << SubSeq(batch, 1, size) >> \o Chunks(SubSeq(batch, size + 1, Len(batch)), size)

\* a start that dispatches every discovered file, excluded or not
count_calls_and_parameters_NoExclude ==
    /\ orch = "start"
    /\ exclude_file_exists
    /\ LET batch == list_files(src_dir, ".py")
           tasks == Chunks(batch, Chunksize(Len(batch), processes))
       IN  /\ excluded' = Range(initialize_and_read_exclude_file(excludeFile))
           /\ python_files' = batch
           /\ taskQueue' = tasks
           /\ numberLeft' = Len(tasks)
    /\ success' = TRUE
    /\ lock' = 0
    /\ pool' = [w \in 1..MaxProcesses |-> Idle]
    /\ handed' = [f \in PathSet |-> 0]
    /\ startLen' = Len(excludeFile)
    /\ orch' = "pool"
    /\ UNCHANGED << offlineVars, inputVars, diskVars, result, kills >>

count_calls_and_parameters ==
    /\ orch = "start"
    /\ exclude_file_exists
    /\ LET candidate_python_files == list_files(src_dir, ".py")
           excluded_python_files == Range(initialize_and_read_exclude_file(excludeFile))
           batch == SelectSeq(candidate_python_files, LAMBDA it : it \notin excluded_python_files)
           tasks == Chunks(batch, Chunksize(Len(batch), processes))
       IN  /\ excluded' = excluded_python_files
           /\ python_files' = batch
           /\ taskQueue' = tasks
           /\ numberLeft' = Len(tasks)
    /\ success' = TRUE
    /\ lock' = 0
    /\ pool' = [w \in 1..MaxProcesses |-> Idle]
    /\ handed' = [f \in PathSet |-> 0]
    /\ startLen' = Len(excludeFile)
    /\ orch' = "pool"
    /\ UNCHANGED << offlineVars, inputVars, diskVars, result, kills >>

\* utils/_files.py line 24: open("r+") does not create the file; without
\* it FileNotFoundError leaves count_calls_and_parameters at line 55
FileNotFound ==
    /\ orch = "start"
    /\ ~ exclude_file_exists
    /\ orch' = "raised"
    /\ UNCHANGED << offlineVars, inputVars, diskVars, runVars, poolVars, result, kills >>

(***************************************************************************)
(* The pool workers: each takes a chunk and calls                          *)
(* _do_count_calls_and_parameters on its files, one after the other.       *)
(***************************************************************************)
Min(a, b) == IF a <= b THEN a ELSE b

Max(a, b) == IF a >= b THEN a ELSE b

CurrentFile(w) == Head(pool[w].chunk)

\* the except clauses without the one for RecursionError
Caught_NoRecursion(kind) == kind \in {"encoding", "syntax"}

\* the except clauses of the worker
Caught(kind) == kind \in {"encoding", "syntax", "recursion"}

\* a worker takes the next chunk and enters the function for its first file
TakeTask(w) ==
    /\ orch = "pool"
    /\ pool[w].pc = "idle"
    /\ taskQueue # << >>
    /\ pool' = [pool EXCEPT ![w] = [pc |-> "scan", chunk |-> Head(taskQueue), off |-> 0]]
    /\ taskQueue' = Tail(taskQueue)
    /\ handed' = [handed EXCEPT ![Head(Head(taskQueue))] = @ + 1]
    /\ UNCHANGED << offlineVars, inputVars, diskVars, orch, excluded, python_files, startLen, numberLeft,
                    success, lock, result, kills >>

\* a scan that goes on to the append without dumping the maps
Scan_NoDump(w) ==
    /\ orch = "pool"
    /\ pool[w].pc = "scan"
    /\ IF fileKind[CurrentFile(w)] = "other"
       THEN /\ pool' = [pool EXCEPT ![w] = Idle]
            /\ numberLeft' = numberLeft - 1
            /\ success' = FALSE
       ELSE /\ pool' = [pool EXCEPT ![w].pc = "lock"]
            /\ UNCHANGED << numberLeft, success >>
    /\ UNCHANGED << offlineVars, inputVars, diskVars, orch, runVars, taskQueue, lock, result, kills >>

\* lines 87-93 and 104-112: read, relevance check, parse and walk
Scan(w) ==
    /\ orch = "pool"
    /\ pool[w].pc = "scan"
    /\ LET kind == fileKind[CurrentFile(w)]
       IN  IF kind = "ok"
           THEN /\ pool' = [pool EXCEPT ![w].pc = "open"]
                /\ UNCHANGED << numberLeft, success >>
           ELSE IF kind = "irrelevant" \/ Caught(kind)
           THEN /\ pool' = [pool EXCEPT ![w].pc = "lock"]
                /\ UNCHANGED << numberLeft, success >>
           ELSE \* the exception leaves the function and ends the whole chunk
                /\ pool' = [pool EXCEPT ![w] = Idle]
                /\ numberLeft' = numberLeft - 1
                /\ success' = FALSE
    /\ UNCHANGED << offlineVars, inputVars, diskVars, orch, runVars, taskQueue, lock, result, kills >>

\* line 98: open("w") creates or truncates the artifact
OpenArtifact(w) ==
    /\ orch = "pool"
    /\ pool[w].pc = "open"
    /\ outDir' = Put(outDir, NameOf[CurrentFile(w)], << >>)
    /\ pool' = [pool EXCEPT ![w].pc = "write", ![w].off = 0]
    /\ UNCHANGED << offlineVars, inputVars, excludeFile, orch, runVars, taskQueue, numberLeft, success,
                    lock, result, kills >>

\* a dump that is closed after its first flush
WriteBlock_FirstOnly(w) ==
    /\ orch = "pool"
    /\ pool[w].pc = "write"
    /\ LET f == CurrentFile(w)
           n == Min(BlockCells, SizeOf[f])
           old == outDir[NameOf[f]]
           cells == [i \in 1..Max(Len(old), n) |-> IF i <= n THEN f ELSE old[i]]
       IN  /\ outDir' = [outDir EXCEPT ![NameOf[f]] = cells]
           /\ pool' = [pool EXCEPT ![w].off = n, ![w].pc = "lock"]
    /\ UNCHANGED << offlineVars, inputVars, excludeFile, orch, runVars, taskQueue, numberLeft, success,
                    lock, result, kills >>

\* lines 99-103: json.dump through the file buffer; every flush writes the
\* next cells at the offset of this writer, the last one closes the file
WriteBlock(w) ==
    /\ orch = "pool"
    /\ pool[w].pc = "write"
    /\ LET f == CurrentFile(w)
           off == pool[w].off
           n == Min(BlockCells, SizeOf[f] - off)
           old == outDir[NameOf[f]]
           cells == [i \in 1..Max(Len(old), off + n) |->
                        IF i > off /\ i <= off + n THEN f
                        ELSE IF i <= Len(old) THEN old[i] ELSE ""]
       IN  /\ outDir' = [outDir EXCEPT ![NameOf[f]] = cells]
           /\ pool' = [pool EXCEPT ![w].off = off + n,
                                   ![w].pc = IF off + n = SizeOf[f] THEN "lock" ELSE "write"]
    /\ UNCHANGED << offlineVars, inputVars, excludeFile, orch, runVars, taskQueue, numberLeft, success,
                    lock, result, kills >>

\* the append entered without waiting for _lock
AcquireLock_NoWait(w) ==
    /\ orch = "pool"
    /\ pool[w].pc = "lock"
    /\ lock' = w
    /\ pool' = [pool EXCEPT ![w].pc = "append"]
    /\ UNCHANGED << offlineVars, inputVars, diskVars, orch, runVars, taskQueue, numberLeft, success,
                    result, kills >>

\* line 114: with _lock
AcquireLock(w) ==
    /\ orch = "pool"
    /\ pool[w].pc = "lock"
    /\ lock = 0
    /\ lock' = w
    /\ pool' = [pool EXCEPT ![w].pc = "append"]
    /\ UNCHANGED << offlineVars, inputVars, diskVars, orch, runVars, taskQueue, numberLeft, success,
                    result, kills >>

\* an append that leaves the `with _lock` block without releasing the lock
AppendExclude_KeepLock(w) ==
    /\ orch = "pool"
    /\ pool[w].pc = "append"
    /\ excludeFile' = Append(excludeFile, CurrentFile(w))
    /\ lock' = lock
    /\ LET rest == Tail(pool[w].chunk)
       IN  IF rest = << >>
           THEN /\ pool' = [pool EXCEPT ![w] = Idle]
                /\ numberLeft' = numberLeft - 1
                /\ UNCHANGED handed
           ELSE /\ pool' = [pool EXCEPT ![w] = [pc |-> "scan", chunk |-> rest, off |-> 0]]
                /\ handed' = [handed EXCEPT ![Head(rest)] = @ + 1]
                /\ UNCHANGED numberLeft
    /\ UNCHANGED << offlineVars, inputVars, outDir, orch, excluded, python_files, startLen, taskQueue,
                    success, result, kills >>

\* lines 115-116: append the file, release the lock and return; the worker
\* goes on with the next file of its chunk or reports the chunk as done
AppendExclude(w) ==
    /\ orch = "pool"
    /\ pool[w].pc = "append"
    /\ excludeFile' = Append(excludeFile, CurrentFile(w))
    /\ lock' = 0
    /\ LET rest == Tail(pool[w].chunk)
       IN  IF rest = << >>
           THEN /\ pool' = [pool EXCEPT ![w] = Idle]
                /\ numberLeft' = numberLeft - 1
                /\ UNCHANGED handed
           ELSE /\ pool' = [pool EXCEPT ![w] = [pc |-> "scan", chunk |-> rest, off |-> 0]]
                /\ handed' = [handed EXCEPT ![Head(rest)] = @ + 1]
                /\ UNCHANGED numberLeft
    /\ UNCHANGED << offlineVars, inputVars, outDir, orch, excluded, python_files, startLen, taskQueue,
                    success, result, kills >>

(***************************************************************************)
(* count_calls_and_parameters after the dispatch.                          *)
(***************************************************************************)
\* a barrier that opens as soon as every chunk has been taken
PoolReady_AllTaken == taskQueue = << >>

\* starmap returns when every chunk has reported: with the results, or by
\* raising the first exception of a chunk, which leaves the function
PoolReady == numberLeft = 0

PoolJoin ==
    /\ orch = "pool"
    /\ PoolReady
    /\ orch' = IF success THEN "joined" ELSE "raised"
    /\ UNCHANGED << offlineVars, inputVars, diskVars, runVars, poolVars, result, kills >>

\* an artifact json.load accepts: the complete dump of one file
Valid(cells) == \E f \in PathSet : cells = [i \in 1..SizeOf[f] |-> f]

Decode(cells) == ContentOf[cells[1]]

\* os.walk yields the files of out_dir in the order the file system keeps
\* them: a fixed order of the names, here the order of their source files
Rank(name) ==
    CHOOSE i \in DOMAIN RelPaths :
        /\ \E root \in Roots : NameOf[root \o RelPaths[i]] = name
        /\ \A j \in 1..(i - 1) : \A root \in Roots : NameOf[root \o RelPaths[j]] # name

RankOf == [name \in {NameOf[f] : f \in PathSet} |-> Rank(name)]

RECURSIVE WalkOrder(_)
WalkOrder(names) ==
    IF names = {} THEN << >>
    ELSE LET first == CHOOSE n \in names : \A m \in names : RankOf[n] <= RankOf[m]
         IN  << first >> \o WalkOrder(names \ {first})

\* lines 144-147: the .json files of out_dir that are no output of the merge
Artifacts(dir) == {name \in DOMAIN dir : ~ contains(name, "$$$$$merged")}

\* line 69: _merge_results reads the artifacts in the order of the directory
\* listing and writes the merged occurrences; json.load raises on a file
\* that is no complete dump
Merge ==
    /\ orch = "joined"
    /\ \E order \in {WalkOrder(Artifacts(outDir))} :
           IF \A i \in DOMAIN order : Valid(outDir[order[i]])
           THEN /\ \E artifacts \in {[i \in DOMAIN order |-> Decode(outDir[order[i]])]} :
                       result' = _merge_results(artifacts)
                /\ outDir' = Put(outDir, MergedOccurrences, << "merged" >>)
                /\ orch' = "merged"
           ELSE /\ orch' = "raised"
                /\ UNCHANGED << outDir, result >>
    /\ UNCHANGED << offlineVars, inputVars, excludeFile, runVars, poolVars, kills >>

\* line 71
RemovedClasses ==
    /\ orch = "merged"
    /\ outDir' = Put(outDir, MergedClassAnalysis, << "merged" >>)
    /\ orch' = "done"
    /\ UNCHANGED << offlineVars, inputVars, excludeFile, runVars, poolVars, result, kills >>

\* the process tree is killed (or has ended) and the command is run again
Restart ==
    /\ orch # "start"
    /\ kills < MaxKills
    /\ kills' = kills + 1
    /\ orch' = "start"
    /\ pool' = [w \in 1..MaxProcesses |-> Idle]
    /\ taskQueue' = << >>
    /\ numberLeft' = 0
    /\ success' = TRUE
    /\ lock' = 0
    /\ result' = NoResult
    /\ UNCHANGED << offlineVars, inputVars, diskVars, runVars >>

Next ==
    \/ count_calls_and_parameters
    \/ FileNotFound
    \/ \E w \in Workers : TakeTask(w)
    \/ \E w \in Workers : Scan(w)
    \/ \E w \in Workers : OpenArtifact(w)
    \/ \E w \in Workers : WriteBlock(w)
    \/ \E w \in Workers : AcquireLock(w)
    \/ \E w \in Workers : AppendExclude(w)
    \/ PoolJoin
    \/ Merge
    \/ RemovedClasses
    \/ Restart

Spec == Init /\ [][Next]_vars

(***************************************************************************)
(* Helpers of the properties.                                              *)
(***************************************************************************)
Batch == Range(python_files)

Drained == orch \in {"joined", "merged", "done"}

\* the workers that are inside _do_count_calls_and_parameters for a file
Busy(f) == {w \in Workers : pool[w].pc # "idle" /\ CurrentFile(w) = f}

Complete(f) == [i \in 1..SizeOf[f] |-> f]

SharesName(f) == \E g \in Range(files) : g # f /\ NameOf[g] = NameOf[f]

\* the files this run has appended to the exclude list
NewEntries == {excludeFile[i] : i \in (startLen + 1)..Len(excludeFile)}

\* the lines of the exclude list that name a file
Count(f) == Cardinality({i \in DOMAIN excludeFile : excludeFile[i] = f})

(***************************************************************************)
(* C1: in one run the files handed to _do_count_calls_and_parameters are   *)
(* exactly the discovered files that are not in the exclude list read at   *)
(* the start, and each is handed exactly once: none twice, none skipped    *)
(* once the pool has answered, none that was excluded.                     *)
(***************************************************************************)
C1_EachFileExactlyOnce ==
    /\ \A f \in PathSet : handed[f] <= 1
    /\ \A f \in PathSet : handed[f] = 1 => f \in Range(files) \ excluded
    /\ orch \in {"joined", "merged", "done", "raised"} =>
          \A f \in Range(files) \ excluded : handed[f] = 1

(***************************************************************************)
(* C2: a worker is inside the append only while it holds _lock, so at most *)
(* one worker is inside the append, and a file that was appended in this   *)
(* run was handed to a worker that is no longer working on it.             *)
(***************************************************************************)
C2_AppendUnderLock ==
    /\ \A w \in Workers : pool[w].pc = "append" => lock = w
    /\ Cardinality({w \in Workers : pool[w].pc = "append"}) <= 1
    /\ \A f \in NewEntries : handed[f] = 1 /\ Busy(f) = {}

\* one worker is inside the append while another one waits for the lock
C2_Witness ==
    \E w1, w2 \in Workers :
        /\ pool[w1].pc = "append"
        /\ pool[w2].pc = "lock"
        /\ Len(excludeFile) > 0

(***************************************************************************)
(* C4: a failure other than bad encoding, invalid syntax or runaway        *)
(* recursion aborts only the task of its file: the pool never makes the    *)
(* run raise, and once the pool has answered every other file of the batch *)
(* is in the exclude list.                                                 *)
(***************************************************************************)
C4_OtherFailureAbortsOnlyItsTask ==
    /\ ~ (orch = "raised" /\ ~ success)
    /\ orch \in {"joined", "merged", "done", "raised"} =>
          \A f \in Batch : fileKind[f] # "other" => f \in NewEntries

(***************************************************************************)
(* C5: a file whose scan raises a bad-encoding, invalid-syntax or          *)
(* recursion error is still appended to the exclude list when its task     *)
(* ends, it never makes a chunk fail, and when the pool is drained every   *)
(* file of the batch is in the exclude list.                               *)
(***************************************************************************)
C5_RecoverableErrorsCaught ==
    /\ orch # "start" =>
          \A f \in Batch :
              (fileKind[f] \in Recoverable /\ handed[f] = 1 /\ Busy(f) = {})
                  => f \in NewEntries
    /\ ~ success => \E f \in Batch : fileKind[f] \notin Recoverable \cup {"ok", "irrelevant"}
    /\ Drained => \A f \in Batch : f \in NewEntries

\* the merge ran after a batch of several files, one of which raised a
\* caught error
C5_Witness ==
    /\ orch = "merged"
    /\ Len(python_files) >= 2
    /\ \E f \in Batch : fileKind[f] \in Recoverable /\ f \in NewEntries

(***************************************************************************)
(* C6: the output directory never holds a half-written artifact: every     *)
(* artifact that exists is the complete dump of one file.                  *)
(***************************************************************************)
C6_ArtifactsAtomic ==
    \A name \in Artifacts(outDir) : Valid(outDir[name])

(***************************************************************************)
(* C9: no two workers write the same artifact file, because two different  *)
(* paths never have the same artifact name.                                *)
(***************************************************************************)
C9_UniqueArtifactNames ==
    \A w1, w2 \in Workers :
        (w1 # w2 /\ pool[w1].pc = "write" /\ pool[w2].pc = "write")
            => NameOf[CurrentFile(w1)] # NameOf[CurrentFile(w2)]

(***************************************************************************)
(* C10: the merge starts only after the batch has drained: from the moment *)
(* starmap has returned no worker is inside a task, no chunk waits, and    *)
(* every file of the batch is in the exclude list.                         *)
(***************************************************************************)
C10_MergeAfterDrain ==
    Drained =>
        /\ \A w \in Workers : pool[w].pc = "idle"
        /\ taskQueue = << >>
        /\ \A f \in Batch : f \in NewEntries

\* the merge has run after two workers shared a batch
C10_Witness ==
    /\ orch = "merged"
    /\ processes >= 2
    /\ Len(python_files) >= 2

Scanned == {f \in Range(files) : fileKind[f] = "ok"}

ScannedNames == {name \in {NameOf[f] : f \in Scanned} : ~ contains(name, "$$$$$merged")}

LastWriters ==
    {last \in [ScannedNames -> Scanned] : \A name \in ScannedNames : NameOf[last[name]] = name}

UninterruptedResults ==
    {LET order == WalkOrder(ScannedNames)
     IN  _merge_results([i \in DOMAIN order |-> ContentOf[last[order[i]]]]) :
        last \in LastWriters}

MaxMerged == 3

\* the scan is not running
NotScanning ==
    /\ src_dir = "s"
    /\ processes = 1
    /\ tree = << >>
    /\ fileKind = << >>
    /\ exclude_file_exists = TRUE
    /\ excludeFile = << >>
    /\ outDir = EmptyMap
    /\ orch = "none"
    /\ excluded = {}
    /\ python_files = << >>
    /\ taskQueue = << >>
    /\ numberLeft = 0
    /\ success = TRUE
    /\ pool = [w \in 1..MaxProcesses |-> Idle]
    /\ lock = 0
    /\ result = NoResult
    /\ kills = 0
    /\ handed = [f \in PathSet |-> 0]
    /\ startLen = 0

scanVars == << inputVars, diskVars, runVars, poolVars, orch, result, kills, walkVars >>

\* what json.load returns for the artifacts of the files under one root
LoadedArtifacts == {ContentOf["s" \o RelPaths[i]] : i \in DOMAIN RelPaths}

\* the directory listings: different artifacts, in any order
Listings ==
    UNION {{listing \in [1..n -> LoadedArtifacts] :
                \A i, j \in 1..n : i # j => listing[i] # listing[j]} : n \in 0..MaxMerged}

MergeInit ==
    /\ NotScanning
    /\ stage = "merge"
    /\ contents \in Listings
    /\ canonical = NoResult
    /\ api = None
    /\ usages = None
    /\ min_usages = 0
    /\ preprocessed = None
    /\ distribution = None
    /\ rarely_used = None
    /\ Unwalked

\* lines 119-210 on the listing
MergeContents ==
    /\ stage = "merge"
    /\ canonical' = _merge_results(contents)
    /\ stage' = "merged"
    /\ UNCHANGED << scanVars, contents, api, usages, min_usages, preprocessed, distribution,
                    rarely_used >>

MergeNext == MergeContents

MergeSpec == MergeInit /\ [][MergeNext]_vars

\* the orders in which n artifacts can be read
Orders(n) == {p \in [1..n -> 1..n] : \A i, j \in 1..n : p[i] = p[j] => i = j}

(***************************************************************************)
(* C11: the merge is order-independent: reading the same artifacts in any  *)
(* other order returns the same canonical store, with the same keys and    *)
(* the same occurrence list under every key.                               *)
(***************************************************************************)
C11_MergeOrderIndependent ==
    stage = "merged" =>
        \A p \in Orders(Len(contents)) :
            _merge_results([i \in DOMAIN contents |-> contents[p[i]]]) = canonical

(***************************************************************************)
(* C12: after the merge no qualified name outside the public API is a key  *)
(* of the calls, of the parameters or of the values of the canonical       *)
(* store.                                                                  *)
(***************************************************************************)
C12_MergeDiscardsNonPublic ==
    stage = "merged" =>
        /\ DOMAIN canonical.calls \subseteq PublicNames
        /\ DOMAIN canonical.parameters \subseteq PublicNames
        /\ DOMAIN canonical.values \subseteq PublicNames

\* an artifact has a call of a callable nested under the class
MentionsClass(content, class_name) ==
    \E q \in DOMAIN content.calls : startswith(q, class_name \o ".")

(***************************************************************************)
(* C13: after the merge every class, function and parameter of the public  *)
(* API is a key of the canonical store, and its occurrence list is empty   *)
(* when no artifact that was read mentions it.                             *)
(***************************************************************************)
C13_MergeSeedsPublicApi ==
    stage = "merged" =>
        /\ \A c \in PublicClasses :
              /\ c \in DOMAIN canonical.classes
              /\ (\A i \in DOMAIN contents : ~ MentionsClass(contents[i], c))
                    => canonical.classes[c] = << >>
        /\ \A q \in PublicNames :
              /\ q \in DOMAIN canonical.calls
              /\ q \in DOMAIN canonical.parameters
              /\ q \in DOMAIN canonical.values
              /\ (\A i \in DOMAIN contents : q \notin DOMAIN contents[i].calls)
                    => canonical.calls[q] = << >>
              /\ \A param \in ParameterNames(q) :
                    /\ param \in DOMAIN canonical.parameters[q]
                    /\ param \in DOMAIN canonical.values[q]
                    /\ (\A i \in DOMAIN contents :
                            param \notin DOMAIN Lookup(contents[i].parameters, q, EmptyMap))
                          => /\ canonical.parameters[q][param] = << >>
                             /\ canonical.values[q][param].values = EmptyMap

(***************************************************************************)
(* The usage store of find_usages.  A Location is a plain object: Python   *)
(* compares and hashes it by identity, so every Location carries the       *)
(* identity of the object next to its fields.                              *)
(***************************************************************************)
Location(file, line, column, id) ==
    [file |-> file, line |-> line, column |-> column, id |-> id]

\* Location.from_json makes a new object
Location_from_json(json, id) == Location(json.file, json.line, json.column, id)

Location_to_json(location) ==
    [file |-> location.file, line |-> location.line, column |-> location.column]

ClassUsage(qname, location) == [qname |-> qname, location |-> location]

FunctionUsage(qname, location) == [qname |-> qname, location |-> location]

ParameterUsage(qname, location) == [qname |-> qname, location |-> location]

ValueUsage(parameter_qname, value, location) ==
    [parameter_qname |-> parameter_qname, value |-> value, location |-> location]

\* UsageStore.__init__
UsageStore ==
    [class_usages |-> EmptyMap, function_usages |-> EmptyMap,
     parameter_usages |-> EmptyMap, value_usages |-> EmptyMap]

add_class_usage(self, qname, location) ==
    [self EXCEPT !.class_usages =
        Put(@, qname, Append(Lookup(@, qname, << >>), ClassUsage(qname, location)))]

add_function_usage(self, qname, location) ==
    [self EXCEPT !.function_usages =
        Put(@, qname, Append(Lookup(@, qname, << >>), FunctionUsage(qname, location)))]

add_parameter_usage(self, qname, location) ==
    [self EXCEPT !.parameter_usages =
        Put(@, qname, Append(Lookup(@, qname, << >>), ParameterUsage(qname, location)))]

add_value_usage(self, parameter_qname, value, location) ==
    [self EXCEPT !.value_usages =
        LET of_parameter == Lookup(@, parameter_qname, EmptyMap)
        IN  Put(@, parameter_qname,
                Put(of_parameter, value,
                    Append(Lookup(of_parameter, value, << >>),
                           ValueUsage(parameter_qname, value, location))))]

\* the keys of a map whose list is not empty: from_json adds a key with the
\* first usage of its list
Used(map) == {qname \in DOMAIN map : map[qname] # << >>}

\* UsageStore.from_json: every location of the file becomes a new Location
from_json(json) ==
    [class_usages |->
        [qname \in Used(json.class_usages) |->
            [i \in DOMAIN json.class_usages[qname] |->
                ClassUsage(qname,
                    Location_from_json(json.class_usages[qname][i], << "class", qname, i >>))]],
     function_usages |->
        [qname \in Used(json.function_usages) |->
            [i \in DOMAIN json.function_usages[qname] |->
                FunctionUsage(qname,
                    Location_from_json(json.function_usages[qname][i],
                                       << "function", qname, i >>))]],
     parameter_usages |->
        [qname \in Used(json.parameter_usages) |->
            [i \in DOMAIN json.parameter_usages[qname] |->
                ParameterUsage(qname,
                    Location_from_json(json.parameter_usages[qname][i],
                                       << "parameter", qname, i >>))]],
     value_usages |->
        [qname \in {q \in DOMAIN json.value_usages : Used(json.value_usages[q]) # {}} |->
            [value \in Used(json.value_usages[qname]) |->
                [i \in DOMAIN json.value_usages[qname][value] |->
                    ValueUsage(qname, value,
                        Location_from_json(json.value_usages[qname][value][i],
                                           << "value", qname, value, i >>))]]]]

(***************************************************************************)
(* The corpus the usage file was made from: calls with the callee, the     *)
(* classes the call is a usage of, the place of the call and the text of   *)
(* the arguments that were bound.                                          *)
(***************************************************************************)
Corpus ==
    << [function |-> "m.f", classes |-> {}, file |-> "u.py", line |-> 1, column |-> 0,
        bound |-> [a |-> "1"]],
       [function |-> "m.f", classes |-> {}, file |-> "u.py", line |-> 2, column |-> 0,
        bound |-> [a |-> "2", b |-> "3"]],
       [function |-> "m.f", classes |-> {}, file |-> "v.py", line |-> 1, column |-> 0,
        bound |-> [a |-> "1", b |-> "1"]],
       [function |-> "m.C.__init__", classes |-> {"m.C"}, file |-> "u.py", line |-> 3,
        column |-> 0, bound |-> [x |-> "5"]],
       [function |-> "m.C.g", classes |-> {}, file |-> "v.py", line |-> 2, column |-> 4,
        bound |-> [z |-> "7"]],
       [function |-> "m.Cx.__init__", classes |-> {"m.Cx"}, file |-> "v.py", line |-> 3,
        column |-> 0, bound |-> << >>],
       [function |-> "m._g", classes |-> {"m._D"}, file |-> "u.py", line |-> 9,
        column |-> 0, bound |-> [y |-> "1"]] >>

\* the qualified name of a parameter
ParameterQName(function_qname, name) == function_qname \o "." \o name

\* the places of the chosen calls that satisfy a condition, in corpus order
Places(chosen, Test(_)) ==
    LET found == SelectSeq(Corpus, LAMBDA call : call \in chosen /\ Test(call))
    IN  [i \in DOMAIN found |->
            [file |-> found[i].file, line |-> found[i].line, column |-> found[i].column]]

\* the usage file (UsageStore.to_json) of the chosen calls of the corpus
UsagesJson(chosen) ==
    LET class_qnames == UNION {call.classes : call \in chosen}
        function_qnames == {call.function : call \in chosen}
        parameters == {<< call.function, name >> : call \in chosen, name \in {"a", "b", "x", "y", "z"}}
        bindings == {b \in parameters : \E call \in chosen :
                        call.function = b[1] /\ b[2] \in DOMAIN call.bound}
        Binds(call, b) == call.function = b[1] /\ b[2] \in DOMAIN call.bound
        qname_of == [b \in bindings |-> ParameterQName(b[1], b[2])]
        binding_of == [q \in {qname_of[b] : b \in bindings} |->
                          CHOOSE b \in bindings : qname_of[b] = q]
    IN  [class_usages |->
            [c \in class_qnames |-> Places(chosen, LAMBDA call : c \in call.classes)],
         function_usages |->
            [f \in function_qnames |-> Places(chosen, LAMBDA call : call.function = f)],
         parameter_usages |->
            [q \in DOMAIN binding_of |->
                Places(chosen, LAMBDA call : Binds(call, binding_of[q]))],
         value_usages |->
            [q \in DOMAIN binding_of |->
                LET b == binding_of[q]
                    texts == {call.bound[b[2]] : call \in {c \in chosen : Binds(c, b)}}
                IN  [text \in texts |->
                        Places(chosen,
                               LAMBDA call : Binds(call, b) /\ call.bound[b[2]] = text)]]]

(***************************************************************************)
(* The API the advisor loads: the classes and, per qualified name, the     *)
(* function with its parameters and the text of their default values.      *)
(***************************************************************************)
\* None where a string is expected (no text of Python is written like this)
PyNone == "<None>"

Parameter(name, default_value) == [name |-> name, default_value |-> default_value]

Function(qname, parameters) == [qname |-> qname, parameters |-> parameters]

FunctionF == Function("m.f", << Parameter("a", PyNone), Parameter("b", "1") >>)

Apis ==
    { [classes |-> {"m.C", "m.Cx"},
       functions |->
           [qname \in {"m.f", "m.C.__init__", "m.C.g", "m.Cx.__init__"} |->
               CASE qname = "m.f" -> FunctionF
                 [] qname = "m.C.__init__" -> Function(qname, << Parameter("x", "0") >>)
                 [] OTHER -> Function(qname, << >>)]],
      [classes |-> {},
       functions |-> [qname \in {"m.f"} |-> FunctionF]] }

is_public_class(self, class_qname) == class_qname \in self.classes

is_public_function(self, function_qname) == function_qname \in DOMAIN self.functions

\* the qualified name without its last segment
parent_qname(qname) ==
    LET dots == {i \in 1..Len(qname) : SubSeq(qname, i, i) = "."}
    IN  IF dots = {} THEN ""
        ELSE SubSeq(qname, 1, (CHOOSE i \in dots : \A j \in dots : j <= i) - 1)

\* the last segment of the qualified name
last_segment(qname) == SubSeq(qname, Len(parent_qname(qname)) + 2, Len(qname))

get_default_value(self, parameter_qname) ==
    LET function_qname == parent_qname(parameter_qname)
        parameter_name == last_segment(parameter_qname)
    IN  IF function_qname \notin DOMAIN self.functions THEN PyNone
        ELSE LET parameters == self.functions[function_qname].parameters
                 found == {i \in DOMAIN parameters : parameters[i].name = parameter_name}
             IN  IF found = {} THEN PyNone
                 ELSE parameters[CHOOSE i \in found : TRUE].default_value

(***************************************************************************)
(* The methods of the usage store the advisor calls.                       *)
(***************************************************************************)
Without(map, qnames) == [qname \in DOMAIN map \ qnames |-> map[qname]]

\* the qualified name lies under the parent: parent, then ".", then more
nested_under(qname, parent) == startswith(qname, parent \o ".")

remove_parameter(self, parameter_qname) ==
    [self EXCEPT !.parameter_usages = Without(@, {parameter_qname}),
                 !.value_usages = Without(@, {parameter_qname})]

remove_function(self, function_qname) ==
    [self EXCEPT !.function_usages = Without(@, {function_qname})]

remove_class(self, class_qname) ==
    [self EXCEPT
        !.class_usages = Without(@, {class_qname}),
        !.function_usages = Without(@, {q \in DOMAIN @ : nested_under(q, class_qname)}),
        !.parameter_usages = Without(@, {q \in DOMAIN @ : nested_under(q, class_qname)}),
        !.value_usages = Without(@, {q \in DOMAIN @ : nested_under(q, class_qname)})]

init_class(self, class_qname) ==
    [self EXCEPT !.class_usages = Put(@, class_qname, Lookup(@, class_qname, << >>))]

init_function(self, function_qname) ==
    [self EXCEPT !.function_usages = Put(@, function_qname, Lookup(@, function_qname, << >>))]

init_parameter(self, parameter_qname) ==
    [self EXCEPT !.parameter_usages = Put(@, parameter_qname, Lookup(@, parameter_qname, << >>))]

init_value(self, parameter_qname) ==
    [self EXCEPT !.value_usages = Put(@, parameter_qname, Lookup(@, parameter_qname, EmptyMap))]

n_class_usages(self, class_qname) == Len(Lookup(self.class_usages, class_qname, << >>))

n_function_usages(self, function_qname) ==
    Len(Lookup(self.function_usages, function_qname, << >>))

\* the loops `for qname in list(...): usages.remove_...(qname)` over the
\* keys that were selected
RECURSIVE remove_classes(_, _)
remove_classes(self, qnames) ==
    IF qnames = {} THEN self
    ELSE LET qname == CHOOSE q \in qnames : TRUE
         IN  remove_classes(remove_class(self, qname), qnames \ {qname})

RECURSIVE remove_functions(_, _)
remove_functions(self, qnames) ==
    IF qnames = {} THEN self
    ELSE LET qname == CHOOSE q \in qnames : TRUE
         IN  remove_functions(remove_function(self, qname), qnames \ {qname})

RECURSIVE remove_parameters(_, _)
remove_parameters(self, qnames) ==
    IF qnames = {} THEN self
    ELSE LET qname == CHOOSE q \in qnames : TRUE
         IN  remove_parameters(remove_parameter(self, qname), qnames \ {qname})

RECURSIVE init_classes(_, _)
init_classes(self, qnames) ==
    IF qnames = {} THEN self
    ELSE LET qname == CHOOSE q \in qnames : TRUE
         IN  init_classes(init_class(self, qname), qnames \ {qname})

\* lines 95-98 for one function
RECURSIVE init_parameters(_, _, _)
init_parameters(self, function_qname, parameters) ==
    IF parameters = << >> THEN self
    ELSE LET parameter_qname == ParameterQName(function_qname, Head(parameters).name)
         IN  init_parameters(init_value(init_parameter(self, parameter_qname), parameter_qname),
                             function_qname, Tail(parameters))

RECURSIVE init_functions(_, _, _)
init_functions(self, functions, qnames) ==
    IF qnames = {} THEN self
    ELSE LET qname == CHOOSE q \in qnames : TRUE
             function == functions[qname]
         IN  init_functions(
                 init_parameters(init_function(self, function.qname), function.qname,
                                 function.parameters),
                 functions, qnames \ {qname})

(***************************************************************************)
(* The advisor: suggest_improvements on a loaded API and usage store.      *)
(***************************************************************************)
\* the largest threshold the advisor is run with
MaxThreshold == 5

Maximum(numbers) == CHOOSE n \in numbers : \A m \in numbers : m <= n

\* lines 53-74, without the internal parameters (lines 75-80)
__remove_internal_usages_NoParameters(store, the_api) ==
    LET no_classes ==
            remove_classes(store,
                {q \in DOMAIN store.class_usages : ~ is_public_class(the_api, q)})
    IN  remove_functions(no_classes,
            {q \in DOMAIN no_classes.function_usages : ~ is_public_function(the_api, q)})

\* lines 53-80
__remove_internal_usages(store, the_api) ==
    LET no_classes ==
            remove_classes(store,
                {q \in DOMAIN store.class_usages : ~ is_public_class(the_api, q)})
        no_functions ==
            remove_functions(no_classes,
                {q \in DOMAIN no_classes.function_usages : ~ is_public_function(the_api, q)})
    IN  remove_parameters(no_functions,
            {q \in DOMAIN no_functions.parameter_usages :
                ~ is_public_function(the_api, parent_qname(q))})

\* lines 83-98 without the functions and parameters (lines 89-98)
__add_unused_api_elements_ClassesOnly(store, the_api) ==
    init_classes(store, {q \in the_api.classes : is_public_class(the_api, q)})

\* lines 83-98
__add_unused_api_elements(store, the_api) ==
    LET with_classes ==
            init_classes(store, {q \in the_api.classes : is_public_class(the_api, q)})
    IN  init_functions(with_classes, the_api.functions,
            {q \in DOMAIN the_api.functions :
                is_public_function(the_api, the_api.functions[q].qname)})

\* lines 107-111 with the two sets exchanged
locations_of_implicit_usages_Exchanged(function_usage_list, parameter_usage_list) ==
    {parameter_usage_list[i].location : i \in DOMAIN parameter_usage_list}
        \ {function_usage_list[i].location : i \in DOMAIN function_usage_list}

\* lines 107-111: the difference of two sets of Location objects
locations_of_implicit_usages_of_default_value(function_usage_list, parameter_usage_list) ==
    {function_usage_list[i].location : i \in DOMAIN function_usage_list}
        \ {parameter_usage_list[i].location : i \in DOMAIN parameter_usage_list}

\* the order in which a set of the locations of a function usage list is
\* iterated: the interpreter's choice, given as an order of the list
Iteration(function_usage_list, locations, order) ==
    LET n == Len(function_usage_list)
        sorted == [k \in 1..n |->
                      CHOOSE i \in 1..n :
                          Cardinality({j \in 1..n : order[j] < order[i]}) = k - 1]
        all == [k \in 1..n |-> function_usage_list[sorted[k]].location]
    IN  SelectSeq(all, LAMBDA location : location \in locations)

\* lines 113-114 without the add_value_usage of line 115
RECURSIVE add_usages_at_NoValue(_, _, _, _)
add_usages_at_NoValue(self, parameter_qname, default_value, locations) ==
    IF locations = << >> THEN self
    ELSE add_usages_at_NoValue(
             add_parameter_usage(self, parameter_qname, Head(locations)),
             parameter_qname, default_value, Tail(locations))

\* lines 113-115
RECURSIVE add_usages_at(_, _, _, _)
add_usages_at(self, parameter_qname, default_value, locations) ==
    IF locations = << >> THEN self
    ELSE add_usages_at(
             add_value_usage(add_parameter_usage(self, parameter_qname, Head(locations)),
                             parameter_qname, default_value, Head(locations)),
             parameter_qname, default_value, Tail(locations))

\* lines 102-115 for the parameters that are left
RECURSIVE add_implicit_usages(_, _, _, _, _)
add_implicit_usages(self, the_api, snapshot, qnames, order) ==
    IF qnames = {} THEN self
    ELSE LET parameter_qname == CHOOSE q \in qnames : TRUE
             default_value == get_default_value(the_api, parameter_qname)
             function_qname == parent_qname(parameter_qname)
             function_usage_list == self.function_usages[function_qname]
             locations ==
                 locations_of_implicit_usages_of_default_value(
                     function_usage_list, snapshot[parameter_qname])
         IN  add_implicit_usages(
                 add_usages_at(self, parameter_qname, default_value,
                               Iteration(function_usage_list, locations, order)),
                 the_api, snapshot, qnames \ {parameter_qname}, order)

\* line 105 raises KeyError
ImplicitUsagesRaise(store) ==
    \E q \in DOMAIN store.parameter_usages : parent_qname(q) \notin DOMAIN store.function_usages

__add_implicit_usages_of_default_value(store, the_api, order) ==
    add_implicit_usages(store, the_api, store.parameter_usages,
                        DOMAIN store.parameter_usages, order)

\* lines 118-132 with `== i` for `<= i` in line 130
__create_class_or_function_usage_distribution_Exactly(usage_map) ==
    LET max_usages == Maximum({Len(usage_map[q]) : q \in DOMAIN usage_map})
    IN  [i \in 0..max_usages |->
            Cardinality({q \in DOMAIN usage_map : Len(usage_map[q]) = i})]

\* lines 118-132
__create_class_or_function_usage_distribution(usage_map) ==
    LET max_usages == Maximum({Len(usage_map[q]) : q \in DOMAIN usage_map})
    IN  [i \in 0..max_usages |->
            Cardinality({q \in DOMAIN usage_map : Len(usage_map[q]) <= i})]

\* lines 167-183 with min() for max() in line 181
__n_not_set_to_most_common_value_Least(parameter_qname, parameter_usages, value_usages) ==
    LET n_total_usage == Len(parameter_usages[parameter_qname])
        of_parameter == value_usages[parameter_qname]
        lengths == {Len(of_parameter[v]) : v \in DOMAIN of_parameter}
    IN  IF n_total_usage = 0 /\ DOMAIN of_parameter = {} THEN 0
        ELSE n_total_usage - (CHOOSE n \in lengths : \A m \in lengths : n <= m)

\* lines 167-183
__n_not_set_to_most_common_value(parameter_qname, parameter_usages, value_usages) ==
    LET n_total_usage == Len(parameter_usages[parameter_qname])
        of_parameter == value_usages[parameter_qname]
    IN  IF n_total_usage = 0 /\ DOMAIN of_parameter = {} THEN 0
        ELSE LET n_set_to_most_commonly_used_value ==
                     Maximum({Len(of_parameter[v]) : v \in DOMAIN of_parameter})
             IN  n_total_usage - n_set_to_most_commonly_used_value

\* line 174, 178 or 181 raises: KeyError, or max() of nothing
MeasureRaises(parameter_qname, parameter_usages, value_usages) ==
    \/ parameter_qname \notin DOMAIN value_usages
    \/ /\ Len(parameter_usages[parameter_qname]) # 0
       /\ DOMAIN value_usages[parameter_qname] = {}

\* lines 135-164
__create_parameter_usage_distribution(parameter_usages, value_usages) ==
    LET max_usages ==
            Maximum({__n_not_set_to_most_common_value(q, parameter_usages, value_usages) :
                        q \in DOMAIN parameter_usages})
    IN  [i \in 0..max_usages |->
            Cardinality({q \in DOMAIN parameter_usages :
                __n_not_set_to_most_common_value(q, parameter_usages, value_usages) <= i})]

\* line 128 or 150 raises ValueError (max() of nothing), or the measure raises
DistributionsRaise(store) ==
    \/ DOMAIN store.class_usages = {}
    \/ DOMAIN store.function_usages = {}
    \/ DOMAIN store.parameter_usages = {}
    \/ \E q \in DOMAIN store.parameter_usages :
          MeasureRaises(q, store.parameter_usages, store.value_usages)

\* lines 205-213 without line 211
__remove_rarely_used_classes_Kept(store, threshold) ==
    [result |-> {q \in DOMAIN store.class_usages : n_class_usages(store, q) < threshold},
     usages |-> store]

\* lines 205-213; sorted(result) of different names is given as their set
__remove_rarely_used_classes(store, threshold) ==
    LET listed == {q \in DOMAIN store.class_usages : n_class_usages(store, q) < threshold}
    IN  [result |-> listed, usages |-> remove_classes(store, listed)]

\* lines 216-224 with `<=` for `<` in line 220
__remove_rarely_used_functions_AtMost(store, threshold) ==
    LET listed ==
            {q \in DOMAIN store.function_usages : n_function_usages(store, q) <= threshold}
    IN  [result |-> listed, usages |-> remove_functions(store, listed)]

\* lines 216-224
__remove_rarely_used_functions(store, threshold) ==
    LET listed ==
            {q \in DOMAIN store.function_usages : n_function_usages(store, q) < threshold}
    IN  [result |-> listed, usages |-> remove_functions(store, listed)]

\* lines 227-237 with `>` for `<` in line 231
__remove_rarely_used_parameters_Above(store, threshold) ==
    LET listed ==
            {q \in DOMAIN store.parameter_usages :
                __n_not_set_to_most_common_value(q, store.parameter_usages,
                                                 store.value_usages) > threshold}
    IN  [result |-> listed, usages |-> remove_parameters(store, listed)]

\* lines 227-237
__remove_rarely_used_parameters(store, threshold) ==
    LET listed ==
            {q \in DOMAIN store.parameter_usages :
                __n_not_set_to_most_common_value(q, store.parameter_usages,
                                                 store.value_usages) < threshold}
    IN  [result |-> listed, usages |-> remove_parameters(store, listed)]

\* the calls of the corpus
Calls == {Corpus[i] : i \in DOMAIN Corpus}

\* the length of the longest list of usages of a function
MostUsages(store) ==
    Maximum({0} \cup {Len(store.function_usages[q]) : q \in DOMAIN store.function_usages})

\* the usage files there can be for the chosen calls: the one find_usages
\* wrote, and the same with the usages of the functions taken out
UsageFiles(chosen) ==
    {UsagesJson(chosen), [UsagesJson(chosen) EXCEPT !.function_usages = << >>]}

\* lines 16-22: the API and the usage store are loaded
AdvisorInit ==
    /\ NotScanning
    /\ stage = "loaded"
    /\ contents = << >>
    /\ canonical = NoResult
    /\ api \in Apis
    /\ \E chosen \in SUBSET Calls :
          \E json \in UsageFiles(chosen) : usages = from_json(json)
    /\ min_usages \in 0..MaxThreshold
    /\ preprocessed = None
    /\ distribution = None
    /\ rarely_used = None
    /\ Unwalked

\* line 34
RemoveInternalUsages ==
    /\ stage = "loaded"
    /\ usages' = __remove_internal_usages(usages, api)
    /\ stage' = "internal_removed"
    /\ UNCHANGED << scanVars, contents, canonical, api, min_usages, preprocessed,
                    distribution, rarely_used >>

\* line 35
AddUnusedApiElements ==
    /\ stage = "internal_removed"
    /\ usages' = __add_unused_api_elements(usages, api)
    /\ stage' = "seeded"
    /\ UNCHANGED << scanVars, contents, canonical, api, min_usages, preprocessed,
                    distribution, rarely_used >>

\* line 36; the store the later steps start from is kept in preprocessed
AddImplicitUsagesOfDefaultValue ==
    /\ stage = "seeded"
    /\ IF ImplicitUsagesRaise(usages)
       THEN /\ stage' = "raised"
            /\ UNCHANGED << usages, preprocessed >>
       ELSE \E order \in Orders(MostUsages(usages)) :
               /\ usages' = __add_implicit_usages_of_default_value(usages, api, order)
               /\ preprocessed' = usages'
               /\ stage' = "preprocessed"
    /\ UNCHANGED << scanVars, contents, canonical, api, min_usages, distribution,
                    rarely_used >>

\* lines 39-50
__create_usage_distributions ==
    /\ stage = "preprocessed"
    /\ IF DistributionsRaise(usages)
       THEN /\ stage' = "raised"
            /\ UNCHANGED distribution
       ELSE /\ distribution' =
                   [classes |->
                        __create_class_or_function_usage_distribution(usages.class_usages),
                    functions |->
                        __create_class_or_function_usage_distribution(usages.function_usages),
                    parameters |->
                        __create_parameter_usage_distribution(usages.parameter_usages,
                                                              usages.value_usages)]
            /\ stage' = "distributed"
    /\ UNCHANGED << scanVars, contents, canonical, api, usages, min_usages, preprocessed,
                    rarely_used >>

\* lines 192-194
RemoveRarelyUsedClasses ==
    /\ stage = "distributed"
    /\ LET done == __remove_rarely_used_classes(usages, min_usages)
       IN  /\ usages' = done.usages
           /\ rarely_used' = [classes |-> done.result]
    /\ stage' = "classes_removed"
    /\ UNCHANGED << scanVars, contents, canonical, api, min_usages, preprocessed,
                    distribution >>

\* lines 196-198
RemoveRarelyUsedFunctions ==
    /\ stage = "classes_removed"
    /\ LET done == __remove_rarely_used_functions(usages, min_usages)
       IN  /\ usages' = done.usages
           /\ rarely_used' = [classes |-> rarely_used.classes, functions |-> done.result]
    /\ stage' = "functions_removed"
    /\ UNCHANGED << scanVars, contents, canonical, api, min_usages, preprocessed,
                    distribution >>

\* lines 200-202
RemoveRarelyUsedParameters ==
    /\ stage = "functions_removed"
    /\ LET done == __remove_rarely_used_parameters(usages, min_usages)
       IN  /\ usages' = done.usages
           /\ rarely_used' = [classes |-> rarely_used.classes,
                              functions |-> rarely_used.functions,
                              parameters |-> done.result]
    /\ stage' = "done"
    /\ UNCHANGED << scanVars, contents, canonical, api, min_usages, preprocessed,
                    distribution >>

AdvisorNext ==
    \/ RemoveInternalUsages
    \/ AddUnusedApiElements
    \/ AddImplicitUsagesOfDefaultValue
    \/ __create_usage_distributions
    \/ RemoveRarelyUsedClasses
    \/ RemoveRarelyUsedFunctions
    \/ RemoveRarelyUsedParameters

AdvisorSpec == AdvisorInit /\ [][AdvisorNext]_vars

(***************************************************************************)
(* What is claimed of the advisor.                                         *)
(***************************************************************************)
\* two locations are at the same place: the same file, line and column
SamePlace(a, b) == a.file = b.file /\ a.line = b.line /\ a.column = b.column

\* the usages a list got beyond the ones of an older list
Added(before, after) == {after[i].location : i \in (Len(before) + 1)..Len(after)}

\* the step of default synthesis
Synthesis == stage = "seeded" /\ stage' = "preprocessed"

\* C14: default synthesis adds a usage of a parameter, and of its default
\* value, only at call locations that are absent from the parameter's own
\* usages, two locations being the same when their file, line and column are
\* equal: where the parameter was bound, nothing is added.
C14_NoSyntheticUsageWhereBound ==
    [][Synthesis =>
        \A q \in DOMAIN usages.parameter_usages :
            LET bound == {usages.parameter_usages[q][i].location :
                             i \in DOMAIN usages.parameter_usages[q]}
                values == usages.value_usages[q]
                values_after == usages'.value_usages[q]
            IN  /\ \A added \in Added(usages.parameter_usages[q], usages'.parameter_usages[q]) :
                       \A location \in bound : ~ SamePlace(added, location)
                /\ \A v \in DOMAIN values_after :
                       \A added \in Added(Lookup(values, v, << >>), values_after[v]) :
                           \A location \in bound : ~ SamePlace(added, location)]_vars

\* a list of usages has one at the place of the location
UsedAt(usage_list, location) ==
    \E i \in DOMAIN usage_list : SamePlace(usage_list[i].location, location)

\* C15: for every parameter p with default value d and every call location
\* L of p's function at which p was not bound, after default synthesis the
\* parameter usages of p contain L and the value usages of (p, d) contain L.
C15_UnboundLocationsGetDefault ==
    [][Synthesis =>
        \A q \in DOMAIN usages.parameter_usages :
            LET d == get_default_value(api, q)
                calls == usages.function_usages[parent_qname(q)]
            IN  d # PyNone =>
                    \A i \in DOMAIN calls :
                        ~ UsedAt(usages.parameter_usages[q], calls[i].location) =>
                            /\ UsedAt(usages'.parameter_usages[q], calls[i].location)
                            /\ d \in DOMAIN usages'.value_usages[q]
                            /\ UsedAt(usages'.value_usages[q][d], calls[i].location)]_vars

\* f(a, b=1) was called at u.py:1:0 with a only: b has a usage there with
\* the location object of the call, and so has its value "1"
C15_Witness ==
    /\ stage = "preprocessed"
    /\ "m.f.b" \in DOMAIN usages.parameter_usages
    /\ \E i \in DOMAIN usages.parameter_usages["m.f.b"] :
          LET location == usages.parameter_usages["m.f.b"][i].location
          IN  /\ location.file = "u.py" /\ location.line = 1 /\ location.column = 0
              /\ location.id[1] = "function"
              /\ \E j \in DOMAIN usages.value_usages["m.f.b"]["1"] :
                    usages.value_usages["m.f.b"]["1"][j].location = location

\* the step that seeds the unused elements
Seeding == stage = "internal_removed" /\ stage' = "seeded"

\* C16: after the seed-unused step every class, function and parameter of
\* the API is a key of the store, with an empty list when it was no key
\* before, and every entry there was keeps its usages.
C16_SeedUnused ==
    [][Seeding =>
        /\ \A c \in api.classes :
              /\ c \in DOMAIN usages'.class_usages
              /\ usages'.class_usages[c] = Lookup(usages.class_usages, c, << >>)
        /\ \A f \in DOMAIN api.functions :
              /\ f \in DOMAIN usages'.function_usages
              /\ usages'.function_usages[f] = Lookup(usages.function_usages, f, << >>)
              /\ \A i \in DOMAIN api.functions[f].parameters :
                    LET q == ParameterQName(f, api.functions[f].parameters[i].name)
                    IN  /\ q \in DOMAIN usages'.parameter_usages
                        /\ usages'.parameter_usages[q]
                               = Lookup(usages.parameter_usages, q, << >>)
        /\ \A c \in DOMAIN usages.class_usages :
              usages'.class_usages[c] = usages.class_usages[c]
        /\ \A f \in DOMAIN usages.function_usages :
              usages'.function_usages[f] = usages.function_usages[f]
        /\ \A q \in DOMAIN usages.parameter_usages :
              /\ usages'.parameter_usages[q] = usages.parameter_usages[q]
              /\ usages'.value_usages[q] = usages.value_usages[q]]_vars

\* the class m.C was never observed and has the empty list, the function
\* m.f was observed and has its usages
C16_Witness ==
    /\ stage = "seeded"
    /\ "m.C" \in DOMAIN usages.class_usages
    /\ usages.class_usages["m.C"] = << >>
    /\ usages.parameter_usages["m.C.__init__.x"] = << >>
    /\ Len(usages.function_usages["m.f"]) = 2

\* the measure of a parameter of the preprocessed store
Measure(q) ==
    __n_not_set_to_most_common_value(q, preprocessed.parameter_usages,
                                     preprocessed.value_usages)

\* the qualified name lies under one of the classes
UnderOneOf(q, classes) == \E c \in classes : nested_under(q, c)

\* C17: the candidates the advisor lists for threshold T are exactly the
\* classes and the functions of the preprocessed store with fewer than T
\* usages and the parameters whose measure is less than T.
C17_CandidatesAreBelowThreshold ==
    stage = "done" =>
        /\ rarely_used.classes =
               {q \in DOMAIN preprocessed.class_usages :
                   Len(preprocessed.class_usages[q]) < min_usages}
        /\ rarely_used.functions =
               {q \in DOMAIN preprocessed.function_usages :
                   Len(preprocessed.function_usages[q]) < min_usages}
        /\ rarely_used.parameters =
               {q \in DOMAIN preprocessed.parameter_usages : Measure(q) < min_usages}

\* C17 as it holds: the classes listed are exactly the ones with fewer than
\* T usages; the functions and the parameters listed are exactly the ones
\* below T that do not lie under a listed class, whose removal took them
\* out of the store before they were looked at.
C17_CandidatesOutsideListedClasses ==
    stage = "done" =>
        /\ rarely_used.classes =
               {q \in DOMAIN preprocessed.class_usages :
                   Len(preprocessed.class_usages[q]) < min_usages}
        /\ rarely_used.functions =
               {q \in DOMAIN preprocessed.function_usages :
                   /\ Len(preprocessed.function_usages[q]) < min_usages
                   /\ ~ UnderOneOf(q, rarely_used.classes)}
        /\ rarely_used.parameters =
               {q \in DOMAIN preprocessed.parameter_usages :
                   /\ Measure(q) < min_usages
                   /\ ~ UnderOneOf(q, rarely_used.classes)}

\* m.f has 3 usages and is listed at T = 5; m.C is listed, and its method
\* m.C.g, also below 5, is not
C17_Witness ==
    /\ stage = "done"
    /\ min_usages = 5
    /\ Len(preprocessed.function_usages["m.f"]) = 3
    /\ "m.f" \in rarely_used.functions
    /\ "m.C" \in rarely_used.classes
    /\ "m.C.g" \in DOMAIN preprocessed.function_usages
    /\ "m.C.g" \notin rarely_used.functions

\* C18: after a class is removed from the store no function key and no
\* parameter key that lies under the class remains.
C18_NoNestedKeysAfterClassRemoval ==
    stage \in {"classes_removed", "functions_removed", "done"} =>
        \A c \in rarely_used.classes :
            /\ c \notin DOMAIN usages.class_usages
            /\ \A q \in DOMAIN usages.function_usages : ~ nested_under(q, c)
            /\ \A q \in DOMAIN usages.parameter_usages : ~ nested_under(q, c)
            /\ \A q \in DOMAIN usages.value_usages : ~ nested_under(q, c)

\* m.C was removed while the store had its method m.C.g with a usage and
\* the parameter x of its constructor
C18_Witness ==
    /\ stage = "classes_removed"
    /\ "m.C" \in rarely_used.classes
    /\ Len(preprocessed.function_usages["m.C.g"]) > 0
    /\ "m.C.__init__.x" \in DOMAIN preprocessed.parameter_usages
    /\ "m.Cx.__init__" \in DOMAIN usages.function_usages

\* the histogram of the counts: from 0 to the largest count, at X the number
\* of entities with a count of at most X, and never falling
IsDistribution(histogram, count) ==
    /\ \E e \in DOMAIN count :
          /\ \A o \in DOMAIN count : count[o] <= count[e]
          /\ DOMAIN histogram = 0..count[e]
    /\ \A x \in DOMAIN histogram :
          /\ histogram[x] = Cardinality({e \in DOMAIN count : count[e] <= x})
          /\ (x + 1) \in DOMAIN histogram => histogram[x] <= histogram[x + 1]

Distributed == stage \in {"distributed", "classes_removed", "functions_removed", "done"}

\* C19: the usage distribution of a kind maps every X from 0 to the largest
\* count to the number of entities whose count (for parameters: measure) is
\* at most X, and it is non-decreasing.
C19_DistributionIsCumulative ==
    Distributed =>
        /\ IsDistribution(distribution.classes,
               [q \in DOMAIN preprocessed.class_usages |->
                   Len(preprocessed.class_usages[q])])
        /\ IsDistribution(distribution.functions,
               [q \in DOMAIN preprocessed.function_usages |->
                   Len(preprocessed.function_usages[q])])
        /\ IsDistribution(distribution.parameters,
               [q \in DOMAIN preprocessed.parameter_usages |->
                   LET total == Len(preprocessed.parameter_usages[q])
                       values == preprocessed.value_usages[q]
                   IN  IF total = 0 THEN 0
                       ELSE total - Maximum({Len(values[v]) : v \in DOMAIN values})])

\* functions with 0, 1 and 3 usages: the histogram goes up to 3 and grows
C19_Witness ==
    /\ stage = "distributed"
    /\ DOMAIN distribution.functions = 0..3
    /\ distribution.functions[0] < distribution.functions[1]
    /\ distribution.functions[2] < distribution.functions[3]
    /\ distribution.parameters[0] < distribution.parameters[1]

\* C20: the measure of a parameter of the preprocessed store is its number
\* of usages minus the number of usages of its most common value, whichever
\* of several equally common values that is, and 0 when it has no usage.
C20_NotMostCommonMeasure ==
    Distributed =>
        \A q \in DOMAIN preprocessed.parameter_usages :
            LET total == Len(preprocessed.parameter_usages[q])
                values == preprocessed.value_usages[q]
                most_common == {v \in DOMAIN values :
                                   \A w \in DOMAIN values : Len(values[w]) <= Len(values[v])}
            IN  /\ total = 0 => Measure(q) = 0
                /\ \A v \in most_common : Measure(q) = total - Len(values[v])
                /\ total > 0 => most_common # {}

\* the measures were taken of a store where x of m.C.__init__ has two
\* values that are both the most common one, and a of m.f has no usage
C20_Witness ==
    /\ stage = "distributed"
    /\ LET values == preprocessed.value_usages["m.C.__init__.x"]
       IN  /\ Len(preprocessed.parameter_usages["m.C.__init__.x"]) = 2
           /\ DOMAIN values = {"0", "5"}
           /\ Len(values["0"]) = Len(values["5"])
    /\ preprocessed.parameter_usages["m.f.a"] = << >>
    /\ distribution.parameters = [x \in 0..1 |-> IF x = 0 THEN 2 ELSE 3]

(***************************************************************************)
(* The walk of one file: visit_call on each of its call nodes.  The file   *)
(* has the calls of a file of the tree and one more call of any shape.     *)
(***************************************************************************)
\* the most positional arguments of the call
MaxPositional == 3

\* a declaration without an explicit parameter list (args is None)
DeclaredH == << "m.h", [posonlyargs |-> << >>, args |-> << >>], 0 >>

\* what the call may resolve to: nothing of the package, or a declaration
Declarations == {<< >>, DeclaredF, DeclaredC, DeclaredH}

PositionalArguments ==
    {[index \in 1..n |-> Const(ToString(index))] : n \in 0..MaxPositional}

\* b is a parameter of m.f, z is a parameter of no declaration
KeywordArguments == {[name \in names |-> Const("7")] : names \in {{}, {"b"}, {"z"}}}

\* the call nodes at line 9: every declaration with every call site
CallNodes ==
    {[called |-> called,
      positional_arguments |-> positional_arguments,
      keyword_arguments |-> keyword_arguments,
      invalid_arguments |-> invalid[1],
      invalid_keywords |-> invalid[2],
      lineno |-> 9,
      col_offset |-> 0] :
        called \in Declarations,
        positional_arguments \in PositionalArguments,
        keyword_arguments \in KeywordArguments,
        invalid \in {<< FALSE, FALSE >>, << TRUE, FALSE >>, << FALSE, TRUE >>}}

WalkInit ==
    /\ NotScanning
    /\ stage = "walk"
    /\ contents = << >>
    /\ canonical = NoResult
    /\ api = None
    /\ usages = None
    /\ min_usages = 0
    /\ preprocessed = None
    /\ distribution = None
    /\ rarely_used = None
    /\ \E i \in DOMAIN RelPaths :
          LET python_file == "s" \o RelPaths[i]
          IN  /\ counter = _CallAndParameterCounter(python_file)
              /\ \E node \in CallNodes : nodes = FileCalls(python_file) \o << node >>

\* ASTWalker: the next call node is visited
VisitCall ==
    /\ stage = "walk"
    /\ nodes # << >>
    /\ counter' = visit_call(counter, Head(nodes))
    /\ nodes' = Tail(nodes)
    /\ UNCHANGED << inputVars, diskVars, runVars, poolVars, orch, result, kills, stage,
                    contents, canonical, api, usages, min_usages, preprocessed, distribution,
                    rarely_used >>

\* the walk has ended
Walked ==
    /\ stage = "walk"
    /\ nodes = << >>
    /\ stage' = "walked"
    /\ UNCHANGED << inputVars, diskVars, runVars, poolVars, orch, result, kills, contents,
                    canonical, api, usages, min_usages, preprocessed, distribution,
                    rarely_used, walkVars >>

WalkNext == VisitCall \/ Walked

WalkSpec == WalkInit /\ [][WalkNext]_vars

\* the names a declaration can bind by position
PositionalNames(called) ==
    LET names == called[2].posonlyargs \o called[2].args[1]
    IN  {names[index] : index \in (called[3] + 1)..Len(names)}

\* the names a declaration can bind by keyword
DeclaredNames(called) ==
    LET names == called[2].posonlyargs \o called[2].args[1]
    IN  {names[index] : index \in DOMAIN names}

\* the arguments of the call node cannot all be bound to its declaration
CannotBind(node) ==
    /\ node.called # << >>
    /\ \/ node.called[2].args = << >>
       \/ Len(node.positional_arguments) > Cardinality(PositionalNames(node.called))
       \/ \E name \in DOMAIN node.keyword_arguments : name \notin DeclaredNames(node.called)

\* C21: a call whose arguments cannot be fully bound (more positional
\* arguments than positional parameters, a keyword that names no parameter,
\* a declaration without an explicit parameter list) adds nothing to the
\* store of the file: no call, no parameter and no value occurrence.
C21_UnbindableCallDiscarded ==
    [][(stage = "walk" /\ nodes # << >> /\ CannotBind(Head(nodes))) =>
          counter' = counter]_vars

\* a list got exactly this one occurrence
GotOne(before, after, occurrence) == after = Append(before, occurrence)

\* every occurrence of a parameter of q is an occurrence of a call of q
ParametersWithinCalls(store) ==
    \A q \in DOMAIN store.parameters :
        \A p \in DOMAIN store.parameters[q] :
            /\ q \in DOMAIN store.calls
            /\ Range(store.parameters[q][p]) \subseteq Range(store.calls[q])

\* C25: a call the scanner records adds exactly one occurrence to the list
\* of the callee, one to the list of every parameter that got a binding and
\* one to the list of every (parameter, value) pair, all at the location of
\* the call and nothing else; so every occurrence of a parameter of q is an
\* occurrence of a call of q.
C25_OneOccurrencePerCall ==
    [][(stage = "walk" /\ nodes # << >> /\ counter' # counter) =>
          LET node == Head(nodes)
              q == node.called[1]
              occurrence == << counter.python_file, node.lineno, node.col_offset >>
              parameters == Lookup(counter.parameters, q, EmptyMap)
              values == Lookup(counter.values, q, EmptyMap)
              bound == {p \in DOMAIN counter'.parameters[q] :
                           counter'.parameters[q][p] # Lookup(parameters, p, << >>)}
          IN  /\ q \in DOMAIN counter'.calls
              /\ GotOne(Lookup(counter.calls, q, << >>), counter'.calls[q], occurrence)
              /\ \A o \in DOMAIN counter'.calls \ {q} : counter'.calls[o] = counter.calls[o]
              /\ \A o \in DOMAIN counter'.parameters \ {q} :
                    /\ counter'.parameters[o] = counter.parameters[o]
                    /\ counter'.values[o] = counter.values[o]
              /\ DOMAIN counter'.values[q] = DOMAIN counter'.parameters[q]
              /\ \A p \in bound :
                    /\ GotOne(Lookup(parameters, p, << >>), counter'.parameters[q][p],
                              occurrence)
                    /\ Cardinality({v \in DOMAIN counter'.values[q][p] :
                           counter'.values[q][p][v]
                               # Lookup(Lookup(values, p, EmptyMap), v, << >>)}) = 1
                    /\ \A v \in DOMAIN counter'.values[q][p] :
                          \/ counter'.values[q][p][v]
                                 = Lookup(Lookup(values, p, EmptyMap), v, << >>)
                          \/ GotOne(Lookup(Lookup(values, p, EmptyMap), v, << >>),
                                    counter'.values[q][p][v], occurrence)
              /\ \A p \in DOMAIN counter'.parameters[q] \ bound :
                    counter'.values[q][p] = Lookup(values, p, EmptyMap)
              /\ ParametersWithinCalls(counter')]_vars

\* the call m.f(1, b=7) at line 9 was recorded: one occurrence of m.f, of a
\* and of b, and of their values, at the place of the call
C25_Witness ==
    /\ stage = "walk"
    /\ nodes = << >>
    /\ counter.python_file = "s/d.py"
    /\ counter.calls = [q \in {"m.f"} |-> << << "s/d.py", 9, 0 >> >>]
    /\ counter.parameters["m.f"] = [p \in {"a", "b"} |-> << << "s/d.py", 9, 0 >> >>]
    /\ counter.values["m.f"]["a"] = [v \in {"1"} |-> << << "s/d.py", 9, 0 >> >>]
    /\ counter.values["m.f"]["b"] = [v \in {"7"} |-> << << "s/d.py", 9, 0 >> >>]

\* C22: when the exclude file does not exist at the start of a run, the
\* start creates it empty and goes on to hand every discovered file to the
\* pool; it does not end with an error.
C22_MissingExcludeFileCreated ==
    [][(orch = "start" /\ ~ exclude_file_exists) =>
          /\ orch' = "pool"
          /\ excludeFile' = << >>
          /\ python_files' = files]_vars

\* the parameters the API declares
DeclaredParameters(the_api) ==
    UNION {{ParameterQName(f, the_api.functions[f].parameters[i].name) :
               i \in DOMAIN the_api.functions[f].parameters} : f \in DOMAIN the_api.functions}

\* C23: after the remove-internal step every key of the class usages is a
\* class of the API, every key of the function usages is a function of the
\* API, and every key of the parameter usages is a parameter the API
\* declares, not merely a name under a public function.
C23_OnlyApiElementsAfterRemoveInternal ==
    stage = "internal_removed" =>
        /\ DOMAIN usages.class_usages \subseteq api.classes
        /\ DOMAIN usages.function_usages \subseteq DOMAIN api.functions
        /\ DOMAIN usages.parameter_usages \subseteq DeclaredParameters(api)

\* C24: after remove-internal and seed-unused, the function of every key
\* of the parameter usages is a key of the function usages, so that default
\* synthesis finds the usages of the function of every parameter.
C24_ParentFunctionIsKey ==
    stage = "seeded" =>
        \A q \in DOMAIN usages.parameter_usages :
            parent_qname(q) \in DOMAIN usages.function_usages

\* the usage file had usages of a of m.f and none of m.f itself: seeding
\* made the entry of m.f
C24_Witness ==
    /\ stage = "seeded"
    /\ Len(usages.parameter_usages["m.f.a"]) > 0
    /\ usages.function_usages["m.f"] = << >>

(***************************************************************************)
(* A run that is not killed, on an exclude file that exists and on files   *)
(* that raise nothing but the errors the worker catches, with every        *)
(* process that can take a step taking one in the end.                     *)
(***************************************************************************)
FairInit ==
    /\ Init
    /\ src_dir = "s"
    /\ processes = MaxProcesses
    /\ exclude_file_exists
    /\ \A f \in DOMAIN fileKind : fileKind[f] # "other"

\* the steps of the worker process w
WorkerStep(w) ==
    /\ w \in Workers
    /\ \/ TakeTask(w)
       \/ Scan(w)
       \/ OpenArtifact(w)
       \/ WriteBlock(w)
       \/ AcquireLock(w)
       \/ AppendExclude(w)

\* the steps of the process that runs count_calls_and_parameters
MainStep ==
    \/ count_calls_and_parameters
    \/ PoolJoin
    \/ Merge
    \/ RemovedClasses

FairNext ==
    \/ MainStep
    \/ \E w \in 1..MaxProcesses : WorkerStep(w)

\* the operating system runs every process that is not blocked
Fairness ==
    /\ WF_vars(MainStep)
    /\ \A w \in 1..MaxProcesses : WF_vars(WorkerStep(w))

FairSpec == FairInit /\ [][FairNext]_vars /\ Fairness

\* C26: under fair scheduling and with only recoverable failures the lock
\* is released after every append, every worker that waits for the lock
\* gets it, every file of the batch gets into the exclude list, and the
\* orchestrator passes the barrier of the pool and runs the merge.
C26_NoStarvationAndMergeRuns ==
    /\ \A w \in 1..MaxProcesses : (lock = w) ~> (lock = 0)
    /\ \A w \in 1..MaxProcesses : (pool[w].pc = "lock") ~> (pool[w].pc = "append" /\ lock = w)
    /\ (orch = "pool") ~> (Range(python_files) \subseteq Range(excludeFile))
    /\ <>(orch = "joined")
    /\ (orch = "joined") ~> (orch \in {"merged", "raised"})

\* a worker waits for the lock another worker holds, with a file that
\* raises an error the worker catches
C26_Witness ==
    /\ orch = "pool"
    /\ pool[1].pc = "lock"
    /\ lock = 2
    /\ \E f \in DOMAIN fileKind : fileKind[f] \in Recoverable

(***************************************************************************)
(* The usage store written to a file and read back.                        *)
(***************************************************************************)
\* UsageStore.to_json: every key of the four maps with the locations of its
\* usages
to_json(self) ==
    [class_usages |->
        [qname \in DOMAIN self.class_usages |->
            [i \in DOMAIN self.class_usages[qname] |->
                Location_to_json(self.class_usages[qname][i].location)]],
     function_usages |->
        [qname \in DOMAIN self.function_usages |->
            [i \in DOMAIN self.function_usages[qname] |->
                Location_to_json(self.function_usages[qname][i].location)]],
     parameter_usages |->
        [qname \in DOMAIN self.parameter_usages |->
            [i \in DOMAIN self.parameter_usages[qname] |->
                Location_to_json(self.parameter_usages[qname][i].location)]],
     value_usages |->
        [parameter_qname \in DOMAIN self.value_usages |->
            [value \in DOMAIN self.value_usages[parameter_qname] |->
                [i \in DOMAIN self.value_usages[parameter_qname][value] |->
                    Location_to_json(self.value_usages[parameter_qname][value][i].location)]]]]

\* C27: the store the advisor holds, written with to_json and read back with
\* from_json, has the same keys in each of the four maps, also those with an
\* empty list, and the same places in the list of every key.
C27_RoundTripKeepsStore ==
    LET back == from_json(to_json(usages))
    IN  /\ DOMAIN back.class_usages = DOMAIN usages.class_usages
        /\ DOMAIN back.function_usages = DOMAIN usages.function_usages
        /\ DOMAIN back.parameter_usages = DOMAIN usages.parameter_usages
        /\ DOMAIN back.value_usages = DOMAIN usages.value_usages
        /\ to_json(back) = to_json(usages)

\* the round trip of a store whose lists all have a usage
C27_RoundTripOfUsedKeys ==
    (/\ \A q \in DOMAIN usages.class_usages : usages.class_usages[q] # << >>
     /\ \A q \in DOMAIN usages.function_usages : usages.function_usages[q] # << >>
     /\ \A q \in DOMAIN usages.parameter_usages : usages.parameter_usages[q] # << >>
     /\ \A q \in DOMAIN usages.value_usages :
            /\ DOMAIN usages.value_usages[q] # {}
            /\ \A v \in DOMAIN usages.value_usages[q] : usages.value_usages[q][v] # << >>)
    => to_json(from_json(to_json(usages))) = to_json(usages)

(***************************************************************************)
(* The candidates for removal at every threshold.                          *)
(***************************************************************************)
\* lines 186-202: the three lists, each made on the store the one before
\* left
__remove_rarely_used_api_elements(store, threshold) ==
    LET of_classes == __remove_rarely_used_classes(store, threshold)
        of_functions == __remove_rarely_used_functions(of_classes.usages, threshold)
        of_parameters == __remove_rarely_used_parameters(of_functions.usages, threshold)
    IN  [classes |-> of_classes.result,
         functions |-> of_functions.result,
         parameters |-> of_parameters.result]

\* the lists of every threshold of the model for the preprocessed store
CandidatesAt == [t \in 0..MaxThreshold |-> __remove_rarely_used_api_elements(preprocessed, t)]

\* C28: for the same preprocessed store, every class, function and
\* parameter listed at a threshold is listed at every greater threshold.
C28_CandidatesGrow ==
    stage = "done" =>
        /\ rarely_used = CandidatesAt[min_usages]
        /\ \A t \in min_usages..MaxThreshold :
              /\ rarely_used.classes \subseteq CandidatesAt[t].classes
              /\ rarely_used.functions \subseteq CandidatesAt[t].functions
              /\ rarely_used.parameters \subseteq CandidatesAt[t].parameters

\* C28 as it holds: a class listed at a threshold is listed at every greater
\* one; a function or a parameter listed at a threshold is, at every greater
\* one, listed or lies under a class that is listed there.
C28_CandidatesGrowOutsideListedClasses ==
    stage = "done" =>
        /\ rarely_used = CandidatesAt[min_usages]
        /\ \A t \in min_usages..MaxThreshold :
              /\ rarely_used.classes \subseteq CandidatesAt[t].classes
              /\ \A q \in rarely_used.functions :
                    q \in CandidatesAt[t].functions \/ UnderOneOf(q, CandidatesAt[t].classes)
              /\ \A q \in rarely_used.parameters :
                    q \in CandidatesAt[t].parameters \/ UnderOneOf(q, CandidatesAt[t].classes)

\* at T = 1 the method m.C.g without usages is listed and its class m.C, with
\* one usage, is not; at T = 2 the class is listed and the method is in no
\* list, while m.f, listed at 1, is listed at 2 as well
C28_Witness ==
    /\ stage = "done"
    /\ min_usages = 1
    /\ "m.C.g" \in rarely_used.functions
    /\ "m.C" \notin rarely_used.classes
    /\ "m.C" \in CandidatesAt[2].classes
    /\ "m.C.g" \notin CandidatesAt[2].functions
    /\ "m.f" \in rarely_used.functions
    /\ "m.f" \in CandidatesAt[2].functions
    /\ rarely_used.parameters # {}

(***************************************************************************)
(* The usages of a parameter and the usages of its values, in the stores   *)
(* of the scanner, of the merge and of the advisor.                        *)
(***************************************************************************)
\* the number of occurrences under the given keys of a map of lists
RECURSIVE Occurrences(_, _)
Occurrences(map, keys) ==
    IF keys = {} THEN 0
    ELSE LET key == CHOOSE k \in keys : TRUE
         IN  Len(map[key]) + Occurrences(map, keys \ {key})

\* the stores the scanner makes: of every file, and of every call shape
ScannerStores ==
    {ContentOf[python_file] : python_file \in PathSet}
        \cup {LET counted == walk(_CallAndParameterCounter("s/c.py"), << node >>)
              IN  [calls |-> counted.calls, parameters |-> counted.parameters,
                   values |-> counted.values] : node \in CallNodes}

\* the stores the merge makes of the artifacts of a directory
MergedStores == {_merge_results(listing) : listing \in Listings}

\* lines 541-563: every parameter with usages has as many usages of values
ScannerStoresAgree ==
    \A store \in ScannerStores :
        \A q \in DOMAIN store.parameters :
            \A p \in DOMAIN store.parameters[q] :
                /\ q \in DOMAIN store.values
                /\ p \in DOMAIN store.values[q]
                /\ Len(store.parameters[q][p]) =
                       Occurrences(store.values[q][p], DOMAIN store.values[q][p])

\* lines 163-192
MergedStoresAgree ==
    \A store \in MergedStores :
        \A q \in DOMAIN store.parameters :
            \A p \in DOMAIN store.parameters[q] :
                /\ q \in DOMAIN store.values
                /\ p \in DOMAIN store.values[q]
                /\ Len(store.parameters[q][p]) =
                       Occurrences(store.values[q][p].values,
                                   DOMAIN store.values[q][p].values)

\* C29: in the stores of the scanner, of the merge and of the advisor, up
\* to and after the synthesis of the default values, a parameter has as
\* many usages as its values have together; so the measure of a parameter
\* never raises for want of a value and is never negative.  The stores of
\* the scanner and of the merge are the same in every state and are looked
\* at where the advisor starts on an empty usage file.
C29_ParameterUsagesAreValueUsages ==
    /\ (stage = "loaded" /\ usages = UsageStore) => ScannerStoresAgree /\ MergedStoresAgree
    /\ \A q \in DOMAIN usages.parameter_usages :
          /\ q \in DOMAIN usages.value_usages
          /\ Len(usages.parameter_usages[q]) =
                 Occurrences(usages.value_usages[q], DOMAIN usages.value_usages[q])
          /\ ~ MeasureRaises(q, usages.parameter_usages, usages.value_usages)
          /\ __n_not_set_to_most_common_value(q, usages.parameter_usages,
                                              usages.value_usages) >= 0

\* the synthesis gave b of m.f usages of its default value next to the one
\* a call had set, and the measure of b is not 0
C29_Witness ==
    /\ stage = "preprocessed"
    /\ "m.f.b" \in DOMAIN usages.parameter_usages
    /\ Cardinality(DOMAIN usages.value_usages["m.f.b"]) = 2
    /\ Len(usages.parameter_usages["m.f.b"]) = 3
    /\ __n_not_set_to_most_common_value("m.f.b", usages.parameter_usages,
                                        usages.value_usages) = 1

(***************************************************************************)
(* The usages of a class in the merged store.                              *)
(***************************************************************************)
\* the occurrences of the callables that lie under the class, in the order
\* of the public functions from the i-th on
RECURSIVE NestedOccurrences(_, _, _)
NestedOccurrences(class_name, result_calls, i) ==
    IF i > Len(PublicFunctions) THEN << >>
    ELSE LET callable_name == PublicFunctions[i].qname
         IN  (IF nested_under(callable_name, class_name)
              THEN result_calls[callable_name] ELSE << >>)
             \o NestedOccurrences(class_name, result_calls, i + 1)

\* C30: after the merge the usages of a class are exactly the occurrences
\* of the callables whose qualified name is the name of the class, a dot and
\* a member name; a callable whose name only starts with the characters of
\* the class name adds none.
C30_ClassUsagesAreOfNestedCallables ==
    stage = "merged" =>
        \A c \in DOMAIN canonical.classes :
            canonical.classes[c] = NestedOccurrences(c, canonical.calls, 1)

====
